---- MODULE Spec2Model ----
(***************************************************************************)
(* Model of the multi-provider LLM orchestration layer of the BRD/PRD      *)
(* generator: the sliding-window RateLimiter (src/src/llm/client.py), the  *)
(* retry_with_backoff wrapper around generate_brd / generate_prd, and the  *)
(* three-phase MultiLLMGenerator pipeline.                                 *)
(*                                                                         *)
(* Time is the integer number of seconds read from time.time().  A task    *)
(* is one asyncio task; code between two awaits that suspend runs as one   *)
(* action, because asyncio tasks are scheduled cooperatively.              *)
(***************************************************************************)
EXTENDS Integers, Sequences, FiniteSets, TLC

VARIABLES
    now,                 \* time.time()
    requests_per_minute, \* RateLimiter.requests_per_minute
    tokens_per_minute,   \* RateLimiter.tokens_per_minute
    request_times,       \* RateLimiter._request_times
    token_counts,        \* RateLimiter._token_counts, entries <<time, count>>
    request_ids,         \* history: for each entry of request_times, a number naming the entry
    pc,                  \* per task: where it is inside acquire
    current_time,        \* per task: acquire's local current_time
    estimated_tokens,    \* per task: acquire's argument
    wake,                \* per task: time at which its asyncio.sleep ends
    waited_on,           \* per task: history, the call whose entry was _request_times[0] when it slept
    calls,               \* number of acquire calls started so far
    ticks,               \* number of times the clock was advanced between calls
    granted,             \* history: one record per acquire call that returned
    limiter_error,       \* history: exception raised by acquire, "none" if none
    strategy,            \* provider of the LLMStrategy instance whose generate_* runs
    request,             \* the arguments of generate_brd / generate_prd: the GenerationRequest and the BRD
    g_pc,                \* where the generate_* call is
    attempt,             \* retry_with_backoff: the loop variable
    last_exception,      \* retry_with_backoff: last_exception
    g_wake,              \* time at which the backoff sleep ends
    outcomes,            \* history: outcome of each execution of the function body
    sleeps,              \* history: delays passed to asyncio.sleep by the wrapper
    api_log,             \* history: provider of each _call_api invocation
    api_times,           \* history: time.time() at each _call_api invocation
    result,              \* what the caller of generate_* received: value or exception
    generates,           \* number of generate_* calls made on the strategy so far
    start_time,          \* cost_tracker: the start_time of the wrapper around generate_*
    mp_pc,               \* MultiLLMGenerator: phase of the sequential pipeline
    mp_request,          \* MultiLLMGenerator: the original request
    available,           \* providers for which the factory finds an API key
    phase_docs,          \* history: the document returned by each completed phase
    mp_result,           \* what the caller of generate_*_sequential received
    factory,             \* LLMFactory: "none", "constructed", or "failed" when __init__ raised
    selection,           \* history: arguments and outcome of the last selection call on the factory
    dg_pc,               \* DocumentGenerator.generate: where the call is
    dg_request,          \* DocumentGenerator.generate: its request
    response,            \* DocumentGenerator.generate: the GenerationResponse it builds
    saved,               \* repository: the documents saved by generate
    validations,         \* history: per validated document, its status and whether save was called
    dg_result,           \* what the caller of generate received: the response or an exception
    config,              \* LLMStrategy.config: the LLMConfig the strategy was built with
    client_pc,           \* a provider client serving one call: where the call is
    http,                \* the provider's reply to the HTTP request of that call
    parsed_content,      \* the dictionary _call_api returned
    steps,               \* history: the functions applied to the provider's reply, in order
    client_result,       \* what the body of generate_* returned or raised
    fixer_call,          \* history: the function of response_fixer called and its argument
    response_data,       \* response_fixer: the caller's dictionary, as the call left it
    fixed,               \* response_fixer: what fix_*_response returned or raised
    cost_calls,          \* history: arguments and results of _calculate_cost calls
    store,               \* the underlying repository: the file of one document
    cache,               \* LRUCache._cache: the value under the document's get key
    readers,             \* per task: where its get of the document is, and its locals
    writer,              \* the task that saves, updates or deletes the document
    changes,             \* history: number of changes of the document completed so far
    got                  \* history: what each completed get returned

limiterVars == <<now, requests_per_minute, tokens_per_minute, request_times,
                 token_counts, request_ids, pc, current_time, estimated_tokens,
                 wake, waited_on, calls, ticks, granted, limiter_error>>

genVars == <<strategy, request, g_pc, attempt, last_exception, g_wake,
             outcomes, sleeps, api_log, api_times, result, generates, start_time>>

mpVars == <<mp_pc, mp_request, available, phase_docs, mp_result>>

factoryVars == <<factory, selection>>

dgVars == <<dg_pc, dg_request, response, saved, validations, dg_result>>

clientVars == <<config, client_pc, http, parsed_content, steps, client_result>>

fixerVars == <<fixer_call, response_data, fixed>>

costVars == <<cost_calls>>

cacheVars == <<store, cache, readers, writer, changes, got>>

otherVars == <<clientVars, fixerVars, costVars, cacheVars>>

vars == <<limiterVars, genVars, mpVars, factoryVars, dgVars, otherVars>>

----------------------------------------------------------------------------
(* Bounds of the model *)

MaxCalls == 3
MaxTicks == 1
MaxRPM == 1
MaxTPM == 1
NTasks == 2
MaxGenerates == 1

(* Program constants *)

Window == 60

TickSteps == {1, 59, 60}
Tasks == 1..NTasks
SeqTasks == {1}

----------------------------------------------------------------------------
(* RateLimiter.acquire *)

RECURSIVE SumCounts(_)
SumCounts(tc) ==
    IF tc = <<>> THEN 0 ELSE Head(tc)[2] + SumCounts(Tail(tc))

InWindow(c, t) == c - t < Window

PruneTimes(times, c) == SelectSeq(times, LAMBDA t : InWindow(c, t))

PruneTokens(tc, c) == SelectSeq(tc, LAMBDA e : InWindow(c, e[1]))

RECURSIVE PruneIds(_, _, _)
PruneIds(times, ids, c) ==
    IF times = <<>> THEN <<>>
    ELSE LET rest == PruneIds(Tail(times), Tail(ids), c)
         IN  IF InWindow(c, Head(times)) THEN <<Head(ids)>> \o rest ELSE rest

RequestLimitOffByOne(times, rpm) == Len(times) >= rpm - 1

RequestLimitReached(times, rpm) == Len(times) >= rpm

RequestWait(times, c) == Window - (c - times[1])

RECURSIVE WaitUntil(_, _, _, _)
WaitUntil(tc, freed, to_free, dflt) ==
    IF tc = <<>> THEN dflt
    ELSE LET f == freed + Head(tc)[2]
         IN  IF f >= to_free THEN Head(tc)[1] + Window
             ELSE WaitUntil(Tail(tc), f, to_free, dflt)

TokenWait(tc, c, e, tpm) ==
    LET total == SumCounts(tc)
    IN  IF total + e > tpm
        THEN WaitUntil(tc, 0, (total + e) - tpm, c) - c
        ELSE 0

AppendTokens(tc, c, e) == IF e > 0 THEN Append(tc, <<c, e>>) ELSE tc

GrantRecord(c, e, w) == [at |-> now, entered |-> c, tokens |-> e, waited |-> w]

(* acquire returns to its caller: its locals are gone *)
Return(t) ==
    /\ pc' = [pc EXCEPT ![t] = "idle"]
    /\ wake' = [wake EXCEPT ![t] = 0]
    /\ current_time' = [current_time EXCEPT ![t] = 0]
    /\ estimated_tokens' = [estimated_tokens EXCEPT ![t] = 0]
    /\ waited_on' = [waited_on EXCEPT ![t] = 0]

(* acquire suspends in asyncio.sleep(wt) *)
Suspend(t, at, c, e, wt, w) ==
    /\ pc' = [pc EXCEPT ![t] = at]
    /\ wake' = [wake EXCEPT ![t] = now + wt]
    /\ current_time' = [current_time EXCEPT ![t] = c]
    /\ estimated_tokens' = [estimated_tokens EXCEPT ![t] = e]
    /\ waited_on' = [waited_on EXCEPT ![t] = w]

(* lines 412-415: record the request, then acquire returns *)
Record(t, times, ids, tc, c, e, w) ==
    /\ request_times' = Append(times, c)
    /\ request_ids' = Append(ids, Len(granted) + 1)
    /\ token_counts' = AppendTokens(tc, c, e)
    /\ granted' = Append(granted, GrantRecord(c, e, w))
    /\ Return(t)

(* lines 393-415: the token check, up to its sleep or to the return *)
TokenPhase(t, times, ids, tc, c, e, w) ==
    LET wt == TokenWait(tc, c, e, tokens_per_minute)
    IN  IF wt > 0
        THEN /\ request_times' = times
             /\ request_ids' = ids
             /\ token_counts' = tc
             /\ granted' = granted
             /\ Suspend(t, "token_sleep", c, e, wt, w)
        ELSE Record(t, times, ids, tc, c, e, w)

(* lines 374-391: entry of acquire, up to the first sleep or to the return *)
AcquireCore(t, e) ==
    /\ pc[t] = "idle"
    /\ calls < MaxCalls
    /\ calls' = calls + 1
    /\ LET times == PruneTimes(request_times, now)
           ids == PruneIds(request_times, request_ids, now)
           tc == PruneTokens(token_counts, now)
       IN  IF RequestLimitReached(times, requests_per_minute)
           THEN IF times = <<>>
                THEN \* _request_times[0] of an empty list: IndexError
                     /\ limiter_error' = "IndexError"
                     /\ request_times' = times
                     /\ request_ids' = ids
                     /\ token_counts' = tc
                     /\ granted' = granted
                     /\ Return(t)
                ELSE IF RequestWait(times, now) > 0
                     THEN /\ Suspend(t, "request_sleep", now, e,
                                     RequestWait(times, now), ids[1])
                          /\ request_times' = times
                          /\ request_ids' = ids
                          /\ token_counts' = tc
                          /\ UNCHANGED <<granted, limiter_error>>
                     ELSE /\ TokenPhase(t, times, ids, tc, now, e, 0)
                          /\ UNCHANGED limiter_error
           ELSE /\ TokenPhase(t, times, ids, tc, now, e, 0)
                /\ UNCHANGED limiter_error
    /\ UNCHANGED <<now, requests_per_minute, tokens_per_minute, ticks>>

(* line 391 returns: the request-limit sleep is over *)
WakeRequestCore(t) ==
    /\ pc[t] = "request_sleep"
    /\ now >= wake[t]
    /\ TokenPhase(t, request_times, request_ids, token_counts,
                  current_time[t], estimated_tokens[t], waited_on[t])
    /\ UNCHANGED <<now, requests_per_minute, tokens_per_minute, calls, ticks,
                   limiter_error>>

(* line 410 returns: the token-limit sleep is over *)
WakeTokenCore(t) ==
    /\ pc[t] = "token_sleep"
    /\ now >= wake[t]
    /\ Record(t, request_times, request_ids, token_counts,
              current_time[t], estimated_tokens[t], waited_on[t])
    /\ UNCHANGED <<now, requests_per_minute, tokens_per_minute, calls, ticks,
                   limiter_error>>

----------------------------------------------------------------------------
(* The clock.  A sleeping task is woken when its delay has elapsed, so time *)
(* does not pass the earliest pending wake-up.                              *)

Wakes == {wake[t] : t \in {u \in Tasks : pc[u] \in {"request_sleep", "token_sleep"}}}
             \cup (IF g_pc = "backoff" THEN {g_wake} ELSE {})

NextWake == CHOOSE w \in Wakes : \A v \in Wakes : w <= v

TickCore(d) ==
    /\ ticks < MaxTicks
    /\ \A w \in Wakes : now + d <= w
    /\ now' = now + d
    /\ ticks' = ticks + 1
    /\ UNCHANGED <<requests_per_minute, tokens_per_minute, request_times,
                   token_counts, request_ids, pc, current_time, estimated_tokens,
                   wake, waited_on, calls, granted, limiter_error>>

SleepElapseCore ==
    /\ Wakes # {}
    /\ \A w \in Wakes : w > now
    /\ now' = NextWake
    /\ UNCHANGED <<requests_per_minute, tokens_per_minute, request_times,
                   token_counts, request_ids, pc, current_time, estimated_tokens,
                   wake, waited_on, calls, ticks, granted, limiter_error>>

----------------------------------------------------------------------------
(* A RateLimiter used on its own (tests/test_llm_integration.py,           *)
(* TestRateLimiter): RateLimiter.__init__ (lines 358-362), then acquire    *)
(* calls.                                                                   *)

NewLimiter ==
    /\ request_times = <<>>
    /\ token_counts = <<>>
    /\ request_ids = <<>>
    /\ pc = [t \in Tasks |-> "idle"]
    /\ current_time = [t \in Tasks |-> 0]
    /\ estimated_tokens = [t \in Tasks |-> 0]
    /\ wake = [t \in Tasks |-> 0]
    /\ waited_on = [t \in Tasks |-> 0]
    /\ granted = <<>>
    /\ limiter_error = "none"

NoRequest ==
    [user_idea_len |-> 0, document_type |-> "none", complexity |-> "none",
     max_cost |-> 0, prompt_len |-> 0, brd_document_id |-> 0]

(* core/models.py, CostMetadata: the declared fields; the model ignores     *)
(* keyword arguments that name no declared field (pydantic's default)      *)
CostMetadataFields ==
    {"provider", "input_tokens", "output_tokens", "cost_per_1k_input",
     "cost_per_1k_output", "total_cost", "generation_time_ms", "cached"}

CostMetadata(kwargs) ==
    [f \in (DOMAIN kwargs) \cap CostMetadataFields |-> kwargs[f]]

(* a rate in 1/100000 dollar per 1K tokens, kept as a fraction *)
Rate(num, den) == [num |-> num, den |-> den]

NoCost ==
    CostMetadata([provider |-> "none", input_tokens |-> 0, output_tokens |-> 0,
                  cost_per_1k_input |-> Rate(0, 1), cost_per_1k_output |-> Rate(0, 1),
                  total_cost |-> 0, generation_time_ms |-> 0, cached |-> FALSE])

(* the pair (document, cost_metadata) that generate_* returns *)
NoDocument ==
    [by |-> "none", attempt |-> 0, summary_len |-> 0, cost |-> NoCost,
     document_id |-> 0, related_brd_id |-> 0]

NoResult == [status |-> "none", doc |-> NoDocument, exc |-> "none"]

NoGenerate ==
    /\ request = NoRequest
    /\ g_pc = "idle"
    /\ attempt = 0
    /\ last_exception = "none"
    /\ g_wake = 0
    /\ outcomes = <<>>
    /\ sleeps = <<>>
    /\ api_log = <<>>
    /\ api_times = <<>>
    /\ result = NoResult
    /\ generates = 0
    /\ start_time = 0

NoPipeline ==
    /\ mp_pc = "idle"
    /\ mp_request = NoRequest
    /\ available = {}
    /\ phase_docs = <<>>
    /\ mp_result = NoResult

NoSelection ==
    [call |-> "none", provider |-> "none", complexity |-> "none", max_cost |-> -1,
     user_idea_len |-> 0, document_type |-> "none", required_context_size |-> -1,
     returned |-> "none", exc |-> "none"]

NoFactory ==
    /\ factory = "none"
    /\ selection = NoSelection

NoResponse ==
    [status |-> "none", brd_document |-> NoDocument, prd_document |-> NoDocument,
     cost_breakdown |-> [k \in {} |-> 0], error_message |-> "none"]

NoGenerateResult == [status |-> "none", response |-> NoResponse, exc |-> "none"]

NoGenerator ==
    /\ dg_pc = "idle"
    /\ dg_request = NoRequest
    /\ response = NoResponse
    /\ saved = {}
    /\ validations = {}
    /\ dg_result = NoGenerateResult

(* client.py lines 44-45: LLMConfig.max_retries and LLMConfig.base_delay,  *)
(* with their defaults                                                      *)
LLMConfigDefaults == [max_retries |-> 3, base_delay |-> 1]

(* the reply of a provider to one HTTP request, none yet *)
NoUsage == [reported |-> FALSE, input_tokens |-> 0, output_tokens |-> 0]

NoHttp ==
    [event |-> "none", status |-> 0, envelope |-> "none", text |-> "none",
     usage |-> NoUsage, document_id |-> "none", fields |-> "none"]

(* what _call_api returned, nothing yet *)
NoContent ==
    [status |-> "none", exc |-> "none", document_id |-> "none", fields |-> "none",
     usage |-> [input_tokens |-> 0, output_tokens |-> 0]]

NoClientResult ==
    [status |-> "none", exc |-> "none", document_id |-> <<>>, cost |-> NoCost]

NoClient ==
    /\ client_pc = "idle"
    /\ http = NoHttp
    /\ parsed_content = NoContent
    /\ steps = <<>>
    /\ client_result = NoClientResult

NoFixerCall == [fn |-> "none", arg |-> <<>>]

NoFixed == [status |-> "none", val |-> <<>>, exc |-> "none"]

NoFixer ==
    /\ fixer_call = NoFixerCall
    /\ response_data = <<>>
    /\ fixed = NoFixed

(* the value LRUCache.get returns for a key that is not cached *)
NotCached == 0 - 1

IdleReader == [pc |-> "idle", floor |-> 0, val |-> 0]

NoCache ==
    /\ store = [present |-> FALSE, ver |-> 0]
    /\ cache = NotCached
    /\ readers = [t \in Tasks |-> IdleReader]
    /\ writer = "idle"
    /\ changes = 0
    /\ got = <<>>

NoOther ==
    /\ config = LLMConfigDefaults
    /\ NoClient
    /\ NoFixer
    /\ cost_calls = {}
    /\ NoCache

LimiterInit ==
    /\ now = 0
    /\ calls = 0
    /\ ticks = 0
    /\ requests_per_minute \in 0..MaxRPM
    /\ tokens_per_minute \in 1..MaxTPM
    /\ NewLimiter
    /\ strategy = "none"
    /\ NoGenerate
    /\ NoPipeline
    /\ NoFactory
    /\ NoGenerator
    /\ NoOther

Estimates == 0..(MaxTPM + 1)

Acquire(t, e) == AcquireCore(t, e) /\ UNCHANGED <<genVars, mpVars, factoryVars, dgVars, otherVars>>

WakeRequest(t) == WakeRequestCore(t) /\ UNCHANGED <<genVars, mpVars, factoryVars, dgVars, otherVars>>

WakeToken(t) == WakeTokenCore(t) /\ UNCHANGED <<genVars, mpVars, factoryVars, dgVars, otherVars>>

Tick(d) == TickCore(d) /\ UNCHANGED <<genVars, mpVars, factoryVars, dgVars, otherVars>>

SleepElapse == SleepElapseCore /\ UNCHANGED <<genVars, mpVars, factoryVars, dgVars, otherVars>>

(* acquire calls made one after another by one task *)
SeqNext ==
    \/ \E e \in Estimates : Acquire(1, e)
    \/ WakeRequest(1)
    \/ WakeToken(1)
    \/ \E d \in TickSteps : Tick(d)
    \/ SleepElapse

SeqSpec == LimiterInit /\ [][SeqNext]_vars

(* asyncio wakes a task whose sleep has elapsed, and the clock runs *)
SeqFairSpec ==
    /\ SeqSpec
    /\ WF_vars(WakeRequest(1))
    /\ WF_vars(WakeToken(1))
    /\ WF_vars(SleepElapse)

(* acquire calls made concurrently by several tasks on one RateLimiter *)
ConcNext ==
    \/ \E t \in Tasks, e \in Estimates : Acquire(t, e)
    \/ \E t \in Tasks : WakeRequest(t)
    \/ \E t \in Tasks : WakeToken(t)
    \/ \E d \in TickSteps : Tick(d)
    \/ SleepElapse

ConcSpec == LimiterInit /\ [][ConcNext]_vars

----------------------------------------------------------------------------
(* LLMStrategy.generate_brd / generate_prd under retry_with_backoff()      *)
(* (src/src/llm/client.py).  Money is counted in 1/10000 dollar, the unit  *)
(* _calculate_cost rounds to; rates are per 1000 tokens in 1/100000        *)
(* dollar.                                                                  *)

Providers == {"openai", "claude", "gemini"}

MaxRetries == 3
BaseDelay == 1
BrdOutputTokens == 2000
PrdOutputTokens == 2500
BrdTokenFactor == 2
PrdTokenFactor == 3

CostPer1kInput(p) ==
    CASE p = "openai" -> 1000 [] p = "claude" -> 1500 [] p = "gemini" -> 125

CostPer1kOutput(p) ==
    CASE p = "openai" -> 3000 [] p = "claude" -> 7500 [] p = "gemini" -> 500

DefaultRequestsPerMinute(p) ==
    CASE p = "openai" -> 500 [] p = "claude" -> 1000 [] p = "gemini" -> 360

DefaultTokensPerMinute(p) ==
    CASE p = "openai" -> 150000 [] p = "claude" -> 100000 [] p = "gemini" -> 1000000

(* round(x, 4) of x = n / d ten-thousandths: to nearest, ties to even *)
RoundHalfEven(n, d) ==
    LET q == n \div d
        r == n % d
    IN  IF 2 * r < d THEN q
        ELSE IF 2 * r > d THEN q + 1
        ELSE IF q % 2 = 0 THEN q ELSE q + 1

(* _calculate_cost with the two rates of self.config spelled out *)
CostAtRates(cost_per_1k_input, cost_per_1k_output, input_tokens, output_tokens) ==
    RoundHalfEven(input_tokens * cost_per_1k_input
                      + output_tokens * cost_per_1k_output, 10000)

CalculateCost(p, input_tokens, output_tokens) ==
    CostAtRates(CostPer1kInput(p), CostPer1kOutput(p), input_tokens, output_tokens)

EstimatedInputTokens(req) == req.prompt_len \div 4

EstimatedOutputTokens(req) ==
    IF req.document_type = "brd" THEN BrdOutputTokens ELSE PrdOutputTokens

EstimatedCost(p, req) ==
    CalculateCost(p, EstimatedInputTokens(req), EstimatedOutputTokens(req))

CostExceeded(p, req) == EstimatedCost(p, req) > req.max_cost

AcquireTokens(req) ==
    req.user_idea_len
        * (IF req.document_type = "brd" THEN BrdTokenFactor ELSE PrdTokenFactor)

(* the except clauses of the wrapper that retry *)
RetryableOrCostExceeded(e) ==
    e \in {"LLMRateLimitError", "LLMConnectionError", "LLMInvalidResponseError",
           "LLMCostExceededError"}

RetryableOrTimeout(e) ==
    e \in {"LLMRateLimitError", "LLMConnectionError", "LLMInvalidResponseError",
           "LLMTimeoutError"}

Retryable(e) ==
    e \in {"LLMRateLimitError", "LLMConnectionError", "LLMInvalidResponseError"}

GiveUpOneEarlier(a) == a < MaxRetries - 2

RetryOnceMore(a) == a < MaxRetries

MayRetry(a) == a < MaxRetries - 1

BackoffDelay(a) == BaseDelay * (2 ^ a)

FirstException(prev, e) == IF prev = "none" THEN e ELSE prev

LastException(prev, e) == e

Raised(e) == [status |-> "exception", doc |-> NoDocument, exc |-> e]

Returned(d) == [status |-> "value", doc |-> d, exc |-> "none"]

(* generate_* returns the tuple (document, cost_metadata); these are the   *)
(* public attributes of a tuple                                            *)
TupleAttributes == {"count", "index"}

(* lines 60-95: cost_tracker sets generation_time_ms on the cost_metadata  *)
(* attribute of the returned value, if the value has that attribute        *)
CostTracker(returned, generation_time_ms) ==
    IF "cost_metadata" \in TupleAttributes
    THEN [returned EXCEPT !.cost.generation_time_ms = generation_time_ms]
    ELSE returned

(* lines 105-140: what the wrapper does with the outcome o of one          *)
(* execution of the function body; d is the document the body returns      *)
Handle(o, d) ==
    /\ outcomes' = Append(outcomes, o)
    /\ IF o = "ok"
       THEN /\ g_pc' = "returned"
            /\ result' = Returned(CostTracker(d, (now - start_time) * 1000))
            /\ UNCHANGED <<attempt, last_exception, g_wake, sleeps>>
       ELSE IF Retryable(o)
       THEN /\ last_exception' = LastException(last_exception, o)
            /\ IF MayRetry(attempt)
               THEN /\ g_pc' = "backoff"
                    /\ g_wake' = now + BackoffDelay(attempt)
                    /\ sleeps' = Append(sleeps, BackoffDelay(attempt))
                    /\ UNCHANGED <<attempt, result>>
               ELSE /\ g_pc' = "raised"
                    /\ result' = Raised(last_exception')
                    /\ UNCHANGED <<attempt, g_wake, sleeps>>
       ELSE /\ g_pc' = "raised"
            /\ result' = Raised(o)
            /\ UNCHANGED <<attempt, last_exception, g_wake, sleeps>>

AcquireRaises ==
    LET times == PruneTimes(request_times, now)
    IN  RequestLimitReached(times, requests_per_minute) /\ times = <<>>

(* lines 222-223: the body starts with _rate_limiter.acquire *)
BodyStartCore ==
    /\ g_pc = "attempt"
    /\ AcquireCore(1, AcquireTokens(request))
    /\ IF AcquireRaises
       THEN /\ Handle("IndexError", NoDocument)
            /\ UNCHANGED <<strategy, request, api_log, api_times, generates, start_time>>
       ELSE /\ g_pc' = IF pc'[1] = "idle" THEN "acquired" ELSE "acquiring"
            /\ UNCHANGED <<strategy, request, attempt, last_exception, g_wake,
                           outcomes, sleeps, api_log, api_times, result, generates, start_time>>

(* acquire wakes up inside the body *)
BodyWakeCore ==
    /\ g_pc = "acquiring"
    /\ WakeRequestCore(1) \/ WakeTokenCore(1)
    /\ g_pc' = IF pc'[1] = "idle" THEN "acquired" ELSE "acquiring"
    /\ UNCHANGED <<strategy, request, attempt, last_exception, g_wake,
                   outcomes, sleeps, api_log, api_times, result, generates, start_time>>

(* lines 225-270: the rest of the body; api is what _call_api does, parsed *)
(* whether _parse_*_response accepts the response, len the size of the     *)
(* returned document when serialized                                        *)
(* lines 252-268: the CostMetadata of one generate_* call, from the usage  *)
(* the provider reported                                                    *)
ActualCost(prov, usage) ==
    CostMetadata([provider |-> prov,
                  input_tokens |-> usage.input_tokens,
                  output_tokens |-> usage.output_tokens,
                  cost_per_1k_input |-> Rate(CostPer1kInput(prov), 1),
                  cost_per_1k_output |-> Rate(CostPer1kOutput(prov), 1),
                  total_cost |-> CalculateCost(prov, usage.input_tokens,
                                               usage.output_tokens),
                  generation_time_ms |-> 0,
                  cached |-> FALSE])

(* lines 250 and 321-326: the parsed document; generate_prd links it to    *)
(* the BRD it was given.  Document ids are numbers, 0 for none.            *)
ParsedDocument(req, api_response) ==
    [document_id |-> api_response.document_id,
     related_brd_id |-> IF req.document_type = "brd" THEN 0
                        ELSE IF req.brd_document_id # 0 THEN req.brd_document_id
                        ELSE api_response.related_brd_id]

BodyRestCore(api, parsed, len, usage) ==
    /\ g_pc = "acquired"
    /\ IF CostExceeded(strategy, request)
       THEN /\ Handle("LLMCostExceededError", NoDocument)
            /\ api_log' = api_log
            /\ api_times' = api_times
       ELSE /\ api_log' = Append(api_log, strategy)
            /\ api_times' = Append(api_times, now)
            /\ Handle(IF api # "ok" THEN api
                      ELSE IF parsed THEN "ok" ELSE "LLMInvalidResponseError",
                      [by |-> strategy, attempt |-> attempt + 1, summary_len |-> len,
                       cost |-> ActualCost(strategy, usage),
                       document_id |-> ParsedDocument(request, usage).document_id,
                       related_brd_id |-> ParsedDocument(request, usage).related_brd_id])
    /\ UNCHANGED <<strategy, request, generates, start_time>>
    /\ UNCHANGED limiterVars

(* line 117 / 129 returns: next iteration of the for loop *)
BackoffDoneCore ==
    /\ g_pc = "backoff"
    /\ now >= g_wake
    /\ attempt' = attempt + 1
    /\ g_pc' = "attempt"
    /\ UNCHANGED <<strategy, request, last_exception, g_wake, outcomes, sleeps,
                   api_log, api_times, result, generates, start_time>>
    /\ UNCHANGED limiterVars

(* a caller awaits strategy.generate_brd(request) or generate_prd(request) *)
GenerateCallCore(req) ==
    /\ g_pc \in {"idle", "returned", "raised"}
    /\ generates < MaxGenerates
    /\ generates' = generates + 1
    /\ start_time' = now
    /\ request' = req
    /\ g_pc' = "attempt"
    /\ attempt' = 0
    /\ last_exception' = "none"
    /\ g_wake' = 0
    /\ outcomes' = <<>>
    /\ sleeps' = <<>>
    /\ api_log' = <<>>
    /\ api_times' = <<>>
    /\ result' = NoResult
    /\ UNCHANGED strategy
    /\ UNCHANGED limiterVars

ApiOutcomes ==
    {"ok", "LLMRateLimitError", "LLMConnectionError", "LLMInvalidResponseError",
     "LLMTimeoutError", "TypeError"}

(* the usage block of a provider response: token counts, 0 when absent *)
(* and the ids the generated document carries                             *)
Usages ==
    {[input_tokens |-> 0, output_tokens |-> 0, document_id |-> 1, related_brd_id |-> 0],
     [input_tokens |-> 1234, output_tokens |-> 2000, document_id |-> 1,
      related_brd_id |-> 0],
     [input_tokens |-> 333, output_tokens |-> 777, document_id |-> 1,
      related_brd_id |-> 0]}

IdeaLens == {50}
PromptLens == {400}
MaxCosts == {100, 20000}
DocumentTypes == {"brd", "prd"}
Complexities == {"simple", "moderate", "complex"}
SummaryLens == {3000, 12000}

Requests ==
    [user_idea_len : IdeaLens, document_type : DocumentTypes,
     complexity : {"moderate"}, max_cost : MaxCosts, prompt_len : PromptLens,
     brd_document_id : {0}]

GenerateCall(req) == GenerateCallCore(req) /\ UNCHANGED <<mpVars, factoryVars, dgVars, otherVars>>

BodyStart == BodyStartCore /\ UNCHANGED <<mpVars, factoryVars, dgVars, otherVars>>

BodyWake == BodyWakeCore /\ UNCHANGED <<mpVars, factoryVars, dgVars, otherVars>>

BodyRest(api, parsed, len, usage) ==
    BodyRestCore(api, parsed, len, usage) /\ UNCHANGED <<mpVars, factoryVars, dgVars, otherVars>>

BackoffDone == BackoffDoneCore /\ UNCHANGED <<mpVars, factoryVars, dgVars, otherVars>>

GenSleepElapse == SleepElapseCore /\ UNCHANGED <<genVars, mpVars, factoryVars, dgVars, otherVars>>

(* one strategy object, built from an LLMConfig, used by one caller *)
GenInit ==
    /\ now = 0
    /\ calls = 0
    /\ ticks = 0
    /\ requests_per_minute \in {0, 1, 60}
    /\ tokens_per_minute \in {100, 90000}
    /\ NewLimiter
    /\ strategy \in Providers
    /\ NoGenerate
    /\ NoPipeline
    /\ NoFactory
    /\ NoGenerator
    /\ NoOther

GenNext ==
    \/ \E req \in Requests : GenerateCall(req)
    \/ BodyStart
    \/ BodyWake
    \/ \E api \in ApiOutcomes, parsed \in BOOLEAN, len \in SummaryLens :
           \E usage \in Usages : BodyRest(api, parsed, len, usage)
    \/ BackoffDone
    \/ GenSleepElapse

GenSpec == GenInit /\ [][GenNext]_vars

----------------------------------------------------------------------------
(* MultiLLMGenerator.generate_brd_sequential / generate_prd_sequential     *)
(* (src/src/core/multi_llm_generator.py)                                    *)

MaxIdeaLen == 10000
RefinementTextLen == 198

Phases == {"draft", "refine", "polish"}

PhaseProviderByComplexity(ph, req) ==
    IF ph = "draft"
    THEN CASE req.complexity = "simple" -> "gemini"
           [] req.complexity = "moderate" -> "openai"
           [] req.complexity = "complex" -> "claude"
    ELSE IF ph = "refine" THEN "openai" ELSE "claude"

PhaseProvider(ph, req) ==
    CASE ph = "draft" -> "gemini" [] ph = "refine" -> "openai" [] ph = "polish" -> "claude"

NextPhase(ph) ==
    CASE ph = "draft" -> "refine" [] ph = "refine" -> "polish" [] ph = "polish" -> "done"

InstructionsLen(ph, req) ==
    IF req.document_type = "brd"
    THEN (IF ph = "refine" THEN 173 ELSE 200)
    ELSE (IF ph = "refine" THEN 257 ELSE 254)

(* _create_refinement_request: the new idea text holds the previous        *)
(* document, the instructions and the original idea                        *)
RefinementRequest(req, prev, ph) ==
    LET len == RefinementTextLen + prev.summary_len + InstructionsLen(ph, req)
                   + req.user_idea_len
    IN  [req EXCEPT !.user_idea_len = len,
                    !.prompt_len = (req.prompt_len - req.user_idea_len) + len]

PhaseRequest(ph) ==
    IF ph = "draft" THEN mp_request
    ELSE RefinementRequest(mp_request, phase_docs[Len(phase_docs)], ph)

PipelineFails(e) ==
    /\ mp_pc' = "failed"
    /\ mp_result' = Raised(e)
    /\ UNCHANGED <<mp_request, available, phase_docs>>
    /\ UNCHANGED <<limiterVars, genVars, factoryVars, dgVars, otherVars>>

(* a caller awaits generate_brd_sequential(request) or                     *)
(* generate_prd_sequential(request)                                         *)
StartPipeline(req, keys) ==
    /\ mp_pc = "idle"
    /\ mp_pc' = "draft"
    /\ mp_request' = req
    /\ available' = keys
    /\ UNCHANGED <<phase_docs, mp_result>>
    /\ UNCHANGED <<limiterVars, genVars, factoryVars, dgVars, otherVars>>

(* lines 67-73, 78-89, 94-105: the phase builds its request and its        *)
(* strategy, with a RateLimiter of its own, and awaits generate_*          *)
PhaseStart ==
    /\ mp_pc \in Phases
    /\ g_pc = "idle"
    /\ LET prov == PhaseProvider(mp_pc, mp_request)
           req == PhaseRequest(mp_pc)
       IN  IF req.user_idea_len > MaxIdeaLen
           THEN PipelineFails("ValidationError")
           ELSE IF prov \notin available
           THEN PipelineFails("MissingAPIKeyError")
           ELSE /\ strategy' = prov
                /\ request' = req
                /\ g_pc' = "attempt"
                /\ attempt' = 0
                /\ last_exception' = "none"
                /\ g_wake' = 0
                /\ outcomes' = <<>>
                /\ sleeps' = <<>>
                /\ result' = NoResult
                /\ requests_per_minute' = DefaultRequestsPerMinute(prov)
                /\ tokens_per_minute' = DefaultTokensPerMinute(prov)
                /\ request_times' = <<>>
                /\ token_counts' = <<>>
                /\ request_ids' = <<>>
                /\ granted' = <<>>
                /\ calls' = 0
                /\ UNCHANGED <<now, pc, current_time, estimated_tokens, wake,
                               waited_on, ticks, limiter_error, api_log, api_times, generates>>
                /\ start_time' = now
                /\ UNCHANGED <<mpVars, factoryVars, dgVars, otherVars>>

(* lines 75, 91, 107: costs_by_provider after the three phases *)
CostsByProvider(docs) ==
    [p \in {"gemini", "openai", "claude"} |->
        CASE p = "gemini" -> docs[1].cost.total_cost
          [] p = "openai" -> docs[2].cost.total_cost
          [] p = "claude" -> docs[3].cost.total_cost]

AverageRateUnscaled(total_cost, total_tokens) ==
    IF total_tokens > 0 THEN Rate(total_cost * 10, total_tokens)
    ELSE Rate(0, 1)

(* line 116: total_cost / (total_tokens / 1000), 0.0 without tokens *)
AverageRate(total_cost, total_tokens) ==
    IF total_tokens > 0 THEN Rate(total_cost * 10 * 1000, total_tokens)
    ELSE Rate(0, 1)

(* lines 110-133: the combined CostMetadata of the three phases *)
CombinedCost(docs) ==
    LET total_cost == docs[1].cost.total_cost + docs[2].cost.total_cost
                          + docs[3].cost.total_cost
        total_input_tokens == docs[1].cost.input_tokens + docs[2].cost.input_tokens
                                  + docs[3].cost.input_tokens
        total_output_tokens == docs[1].cost.output_tokens + docs[2].cost.output_tokens
                                   + docs[3].cost.output_tokens
        total_tokens == total_input_tokens + total_output_tokens
        avg_cost_per_1k_input == AverageRate(total_cost, total_tokens)
    IN  CostMetadata([provider |-> "multi-llm",
                      total_cost |-> total_cost,
                      input_tokens |-> total_input_tokens,
                      output_tokens |-> total_output_tokens,
                      cost_per_1k_input |-> avg_cost_per_1k_input,
                      cost_per_1k_output |-> avg_cost_per_1k_input,
                      generation_time_ms |-> docs[1].cost.generation_time_ms
                                                 + docs[2].cost.generation_time_ms
                                                 + docs[3].cost.generation_time_ms,
                      cached |-> FALSE,
                      breakdown |-> CostsByProvider(docs)])

(* generate_* returned a document: lines 74-76, 90-92, 106-136 *)
PhaseReturn ==
    /\ mp_pc \in Phases
    /\ g_pc = "returned"
    /\ phase_docs' = Append(phase_docs, result.doc)
    /\ mp_pc' = NextPhase(mp_pc)
    /\ mp_result' = IF mp_pc = "polish"
                     THEN Returned([result.doc EXCEPT !.cost = CombinedCost(phase_docs')])
                     ELSE mp_result
    /\ g_pc' = "idle"
    /\ UNCHANGED <<mp_request, available>>
    /\ UNCHANGED <<strategy, request, attempt, last_exception, g_wake, outcomes,
                   sleeps, api_log, api_times, result, generates, start_time>>
    /\ UNCHANGED <<limiterVars, factoryVars, dgVars, otherVars>>

PhaseRaiseReturnsPartial ==
    /\ mp_pc \in Phases
    /\ g_pc = "raised"
    /\ mp_pc' = "failed"
    /\ mp_result' = IF phase_docs = <<>> THEN result
                     ELSE Returned(phase_docs[Len(phase_docs)])
    /\ g_pc' = "idle"
    /\ UNCHANGED <<mp_request, available, phase_docs>>
    /\ UNCHANGED <<strategy, request, attempt, last_exception, g_wake, outcomes,
                   sleeps, api_log, api_times, result, generates, start_time>>
    /\ UNCHANGED <<limiterVars, factoryVars, dgVars, otherVars>>

(* generate_* raised: the exception leaves generate_*_sequential *)
PhaseRaise ==
    /\ mp_pc \in Phases
    /\ g_pc = "raised"
    /\ mp_pc' = "failed"
    /\ mp_result' = result
    /\ g_pc' = "idle"
    /\ UNCHANGED <<mp_request, available, phase_docs>>
    /\ UNCHANGED <<strategy, request, attempt, last_exception, g_wake, outcomes,
                   sleeps, api_log, api_times, result, generates, start_time>>
    /\ UNCHANGED <<limiterVars, factoryVars, dgVars, otherVars>>

(* ceilings of 0.01, 0.05 and 2.0 dollars: below the estimate of every     *)
(* phase, between the estimates of the draft and the refine phase, above   *)
(* all of them                                                             *)
PipelineMaxCosts == MaxCosts \cup {500}

PipelineRequests ==
    [user_idea_len : IdeaLens, document_type : DocumentTypes,
     complexity : Complexities, max_cost : PipelineMaxCosts, prompt_len : PromptLens,
     brd_document_id : {0}]

PipelineOutcomes == {"ok", "LLMRateLimitError", "LLMTimeoutError"}

MPInit ==
    /\ now = 0
    /\ calls = 0
    /\ ticks = 0
    /\ requests_per_minute = 0
    /\ tokens_per_minute = 0
    /\ NewLimiter
    /\ strategy = "none"
    /\ NoGenerate
    /\ NoPipeline
    /\ NoFactory
    /\ NoGenerator
    /\ NoOther

MPNext ==
    \/ \E req \in PipelineRequests, keys \in (SUBSET Providers) \ {{}} :
           StartPipeline(req, keys)
    \/ PhaseStart
    \/ BodyStart
    \/ \E api \in PipelineOutcomes, len \in SummaryLens, usage \in Usages :
           BodyRest(api, TRUE, len, usage)
    \/ BackoffDone
    \/ GenSleepElapse
    \/ PhaseReturn
    \/ PhaseRaise

MPSpec == MPInit /\ [][MPNext]_vars

----------------------------------------------------------------------------
(* LLMFactory (src/src/llm/factory.py): provider selection.  Costs of the  *)
(* selection are in 1/1000000 dollar; an absent optional argument is -1    *)
(* for a number and "none" for a name.                                     *)

ComplexityProviderMap(complexity) ==
    CASE complexity = "simple" -> "gemini"
      [] complexity = "moderate" -> "openai"
      [] complexity = "complex" -> "claude"

PreferenceOrderCheapestFirst == <<"gemini", "openai", "claude">>

ProviderPreferenceOrder == <<"openai", "claude", "gemini">>

(* line 311: the order in which a cheaper alternative is looked for *)
CostScanOrder == <<"gemini", "openai", "claude">>

(* _estimate_cost_for_provider: the token buckets (input, output) *)
TokenEstimates(complexity) ==
    CASE complexity = "simple" -> [input |-> 1000, output |-> 2000]
      [] complexity = "moderate" -> [input |-> 1500, output |-> 3000]
      [] complexity = "complex" -> [input |-> 2000, output |-> 4000]

EstimateCostForProvider(provider, complexity) ==
    LET t == TokenEstimates(complexity)
    IN  (t.input * CostPer1kInput(provider)) \div 100
            + (t.output * CostPer1kOutput(provider)) \div 100

(* the first provider of the sequence order that is in the set ok, or "none" *)
FirstIn(order, ok) ==
    LET hits == {i \in DOMAIN order : order[i] \in ok}
    IN  IF hits = {} THEN "none"
        ELSE order[CHOOSE i \in hits : \A j \in hits : i <= j]

Selected(p) == [returned |-> p, exc |-> "none"]

SelectionRaises(e) == [returned |-> "none", exc |-> e]

FallbackFirstListed(avail) ==
    Selected(ProviderPreferenceOrder[1])

(* lines 328-338: fall back to the first available provider *)
Fallback(avail) ==
    LET provider == FirstIn(ProviderPreferenceOrder, avail)
    IN  IF provider # "none" THEN Selected(provider)
        ELSE SelectionRaises("NoAvailableProviderError")

(* _select_provider_by_complexity, lines 284-338 *)
SelectProviderByComplexity(avail, complexity, max_cost) ==
    LET preferred == ComplexityProviderMap(complexity)
        affordable ==
            {p \in avail : EstimateCostForProvider(p, complexity) <= max_cost}
        cheaper == FirstIn(CostScanOrder, affordable)
    IN  IF preferred \in avail
        THEN IF max_cost # -1
             THEN IF EstimateCostForProvider(preferred, complexity) <= max_cost
                  THEN Selected(preferred)
                  ELSE IF cheaper # "none" THEN Selected(cheaper)
                  ELSE Fallback(avail)
             ELSE Selected(preferred)
        ELSE Fallback(avail)

(* _estimate_complexity, lines 196-221 *)
EstimateComplexity(idea_length, document_type) ==
    IF document_type = "both"
    THEN (IF idea_length > 1000 THEN "complex" ELSE "moderate")
    ELSE IF idea_length < 500 THEN "simple"
    ELSE IF idea_length < 1500 THEN "moderate"
    ELSE "complex"

(* create_strategy, lines 223-282; the strategy is named by its provider *)
CreateStrategyResult(avail, provider, complexity, user_idea_len, document_type, max_cost) ==
    IF provider # "none"
    THEN IF provider \notin avail
         THEN SelectionRaises("NoAvailableProviderError")
         ELSE Selected(provider)
    ELSE LET task_complexity ==
                 IF complexity = "none" /\ user_idea_len > 0 /\ document_type # "none"
                 THEN EstimateComplexity(user_idea_len, document_type)
                 ELSE IF complexity # "none" THEN complexity
                 ELSE "moderate"
         IN  SelectProviderByComplexity(avail, task_complexity, max_cost)

(* the selection calls, recorded with their arguments *)
SelectionCall(name, provider, complexity, user_idea_len, document_type, max_cost, required_context_size, outcome) ==
    [call |-> name, provider |-> provider, complexity |-> complexity,
     max_cost |-> max_cost, user_idea_len |-> user_idea_len,
     document_type |-> document_type,
     required_context_size |-> required_context_size,
     returned |-> outcome.returned, exc |-> outcome.exc]

FactoryFrame ==
    /\ UNCHANGED <<mp_pc, mp_request, available, phase_docs, mp_result>>
    /\ UNCHANGED <<limiterVars, genVars, dgVars, otherVars>>

ConstructFactoryUnchecked ==
    /\ factory = "none"
    /\ factory' = "constructed"
    /\ selection' = SelectionCall("__init__", "none", "none", 0, "none", -1, -1,
                                  Selected("none"))
    /\ FactoryFrame

(* LLMFactory.__init__, lines 114-133 *)
ConstructFactory ==
    /\ factory = "none"
    /\ IF available = {}
       THEN /\ factory' = "failed"
            /\ selection' = SelectionCall("__init__", "none", "none", 0, "none", -1, -1,
                                          SelectionRaises("NoAvailableProviderError"))
       ELSE /\ factory' = "constructed"
            /\ selection' = SelectionCall("__init__", "none", "none", 0, "none", -1, -1,
                                          Selected("none"))
    /\ FactoryFrame

(* no outcome of a selection call is waiting to be taken by its caller *)
NoOutcome == selection.returned = "none" /\ selection.exc = "none"

(* the caller took the outcome of its call; the factory is as it was *)
TakeOutcome ==
    /\ ~NoOutcome
    /\ selection' = NoSelection
    /\ UNCHANGED factory
    /\ FactoryFrame

(* a caller invokes factory._select_provider_by_complexity *)
SelectProvider(complexity, max_cost) ==
    /\ factory = "constructed"
    /\ NoOutcome
    /\ selection' = SelectionCall("_select_provider_by_complexity", "none", complexity,
                                  0, "none", max_cost, -1,
                                  SelectProviderByComplexity(available, complexity,
                                                             max_cost))
    /\ UNCHANGED factory
    /\ FactoryFrame

(* a caller invokes factory.create_strategy *)
CreateStrategy(provider, complexity, user_idea_len, document_type, max_cost) ==
    /\ factory = "constructed"
    /\ NoOutcome
    /\ selection' = SelectionCall("create_strategy", provider, complexity,
                                  user_idea_len, document_type, max_cost, -1,
                                  CreateStrategyResult(available, provider, complexity,
                                                       user_idea_len, document_type,
                                                       max_cost))
    /\ UNCHANGED factory
    /\ FactoryFrame

(* examples/api/llm_factory.py, LLMFactory.get_optimal_strategy: the        *)
(* variant of the selection that takes a required context size.  Its       *)
(* cost argument is a price per 1K tokens, in 1/100000 dollar.             *)
MaxContextTokens(provider) ==
    CASE provider = "openai" -> 128000
      [] provider = "claude" -> 200000
      [] provider = "gemini" -> 1000000

(* lines 73-85: the choice by complexity and cost *)
OptimalByCost(task_complexity, max_cost_per_1k_tokens) ==
    LET tc == IF task_complexity = "none" THEN "moderate" ELSE task_complexity
    IN  IF max_cost_per_1k_tokens # -1 /\ max_cost_per_1k_tokens < 2500 THEN "gemini"
        ELSE IF max_cost_per_1k_tokens # -1 /\ max_cost_per_1k_tokens < 3500
        THEN "openai"
        ELSE ComplexityProviderMap(tc)

(* lines 87-95: the override by context size *)
OptimalProvider(task_complexity, max_cost_per_1k_tokens, required_context_size) ==
    LET selected_provider == OptimalByCost(task_complexity, max_cost_per_1k_tokens)
    IN  IF required_context_size # -1 /\ required_context_size > 200000 THEN "gemini"
        ELSE IF /\ required_context_size # -1
                /\ required_context_size > 128000
                /\ selected_provider = "openai"
        THEN "claude"
        ELSE selected_provider

(* lines 45-60 and 98: get_strategy needs the API key of the provider *)
GetOptimalStrategy(task_complexity, max_cost_per_1k_tokens, required_context_size) ==
    /\ NoOutcome
    /\ LET p == OptimalProvider(task_complexity, max_cost_per_1k_tokens,
                                required_context_size)
       IN  selection' = SelectionCall("get_optimal_strategy", "none", task_complexity,
                                      0, "none", max_cost_per_1k_tokens,
                                      required_context_size,
                                      IF p \in available THEN Selected(p)
                                      ELSE SelectionRaises("ValueError"))
    /\ UNCHANGED factory
    /\ FactoryFrame

PricesPer1k == {-1, 1000, 3000, 5000}

ContextSizes == {-1, 100000, 128000, 150000, 200000, 250000}

(* maximum costs passed to the selection, -1 when none is given *)
FactoryMaxCosts == {-1, 10000, 20000, 50000, 150000, 400000}

FactoryIdeaLens == {0, 100, 600, 2000}

FactoryInit ==
    /\ now = 0
    /\ calls = 0
    /\ ticks = 0
    /\ requests_per_minute = 0
    /\ tokens_per_minute = 0
    /\ NewLimiter
    /\ strategy = "none"
    /\ NoGenerate
    /\ mp_pc = "idle"
    /\ mp_request = NoRequest
    /\ available \in SUBSET Providers
    /\ phase_docs = <<>>
    /\ mp_result = NoResult
    /\ NoFactory
    /\ NoGenerator
    /\ NoOther

FactoryNext ==
    \/ ConstructFactory
    \/ TakeOutcome
    \/ \E c \in Complexities, m \in FactoryMaxCosts : SelectProvider(c, m)
    \/ \E p \in Providers \cup {"none"}, c \in Complexities \cup {"none"},
          len \in FactoryIdeaLens, dt \in {"none", "brd", "prd", "both"},
          m \in FactoryMaxCosts :
           CreateStrategy(p, c, len, dt, m)
    \/ \E c \in Complexities \cup {"none"}, m \in PricesPer1k, r \in ContextSizes :
           GetOptimalStrategy(c, m, r)

FactorySpec == FactoryInit /\ [][FactoryNext]_vars

----------------------------------------------------------------------------
(* DocumentGenerator.generate (src/src/core/generator.py): one request,    *)
(* served by strategies that the factory creates for each document.        *)

DGFrame ==
    UNCHANGED <<mp_pc, mp_request, available, phase_docs, mp_result, factory, otherVars>>

(* lines 101-110: the response is initialised; lines 114, 123, 132: the    *)
(* first document to generate                                              *)
Generate(req) ==
    /\ dg_pc = "idle"
    /\ dg_request' = req
    /\ response' = [NoResponse EXCEPT !.status = "processing"]
    /\ dg_pc' = IF req.document_type = "prd" THEN "prd" ELSE "brd"
    /\ UNCHANGED <<saved, validations, dg_result, selection>>
    /\ DGFrame
    /\ UNCHANGED <<limiterVars, genVars>>

(* lines 153-157: the except clause of generate *)
(* the response is marked failed and the exception is raised again *)
GenerateFails(e) ==
    /\ dg_pc' = "failed"
    /\ response' = [response EXCEPT !.status = "failed", !.error_message = e]
    /\ dg_result' = [status |-> "exception", response |-> NoResponse, exc |-> e]

BrdContextNone(req, resp) == 0

(* lines 124 and 137: the BRD handed to _generate_prd, 0 for none *)
BrdContext(req, resp) ==
    IF req.document_type = "both" THEN resp.brd_document.document_id ELSE 0

(* factory.py lines 385-399: the LLMConfig of a new strategy is the        *)
(* provider's default configuration, overridden by the custom              *)
(* configuration the factory was given                                     *)
ConfiguredRequestsPerMinute(prov) ==
    IF "requests_per_minute" \in DOMAIN config THEN config.requests_per_minute
    ELSE DefaultRequestsPerMinute(prov)

(* _generate_brd lines 176-221, _generate_prd lines 253-283: a strategy is *)
(* created for the document and its generate_* is awaited                  *)
DocumentStart ==
    /\ dg_pc \in {"brd", "prd"}
    /\ g_pc = "idle"
    /\ LET outcome == CreateStrategyResult(available, "none", dg_request.complexity,
                                           dg_request.user_idea_len, dg_pc,
                                           dg_request.max_cost * 100)
           prov == outcome.returned
       IN  /\ selection' = SelectionCall("create_strategy", "none",
                                         dg_request.complexity,
                                         dg_request.user_idea_len, dg_pc,
                                         dg_request.max_cost * 100, -1, outcome)
           /\ IF outcome.exc # "none"
              THEN /\ GenerateFails(outcome.exc)
                   /\ UNCHANGED <<dg_request, saved, validations>>
                   /\ UNCHANGED <<limiterVars, genVars>>
              ELSE /\ strategy' = prov
                   /\ request' =
                          [dg_request EXCEPT
                              !.document_type = dg_pc,
                              !.brd_document_id =
                                  IF dg_pc = "prd" THEN BrdContext(dg_request, response)
                                  ELSE 0]
                   /\ g_pc' = "attempt"
                   /\ attempt' = 0
                   /\ last_exception' = "none"
                   /\ g_wake' = 0
                   /\ outcomes' = <<>>
                   /\ sleeps' = <<>>
                   /\ result' = NoResult
                   /\ requests_per_minute' = ConfiguredRequestsPerMinute(prov)
                   /\ tokens_per_minute' = DefaultTokensPerMinute(prov)
                   /\ request_times' = <<>>
                   /\ token_counts' = <<>>
                   /\ request_ids' = <<>>
                   /\ granted' = <<>>
                   /\ calls' = 0
                   /\ UNCHANGED <<now, pc, current_time, estimated_tokens, wake,
                                  waited_on, ticks, limiter_error, api_log, api_times, generates>>
                   /\ start_time' = now
                   /\ UNCHANGED dgVars
    /\ DGFrame

(* _generate_prd lines 297-299: link to the BRD if one was provided *)
LinkToBrd(doc, brd_document_id) ==
    IF brd_document_id # 0 THEN [doc EXCEPT !.related_brd_id = brd_document_id]
    ELSE doc

(* lines 116-120, 125-129, 140-146: the cost_breakdown of the response *)
CostBreakdown(resp, document_type) ==
    CASE document_type = "brd" ->
             [brd_cost |-> resp.brd_document.cost.total_cost,
              total_cost |-> resp.brd_document.cost.total_cost]
      [] document_type = "prd" ->
             [prd_cost |-> resp.prd_document.cost.total_cost,
              total_cost |-> resp.prd_document.cost.total_cost]
      [] document_type = "both" ->
             [brd_cost |-> resp.brd_document.cost.total_cost,
              prd_cost |-> resp.prd_document.cost.total_cost,
              total_cost |-> resp.brd_document.cost.total_cost
                                 + resp.prd_document.cost.total_cost]

(* generate_* returned: _generate_brd lines 223-233 or _generate_prd lines *)
(* 289-302, then generate lines 115-146                                    *)
DocumentReturn ==
    /\ dg_pc \in {"brd", "prd"}
    /\ g_pc = "returned"
    /\ g_pc' = "idle"
    /\ IF dg_pc = "brd"
       THEN /\ dg_pc' = IF dg_request.document_type = "both" THEN "prd" ELSE "validate"
            /\ LET resp == [response EXCEPT !.brd_document = result.doc]
               IN  response' =
                       IF dg_request.document_type = "both" THEN resp
                       ELSE [resp EXCEPT !.cost_breakdown = CostBreakdown(resp, "brd")]
       ELSE /\ dg_pc' = "validate"
            /\ LET resp == [response EXCEPT
                                !.prd_document =
                                    LinkToBrd(result.doc, request.brd_document_id)]
               IN  response' =
                       [resp EXCEPT
                           !.cost_breakdown =
                               CostBreakdown(resp, dg_request.document_type)]
    /\ UNCHANGED <<dg_request, saved, validations, dg_result, selection>>
    /\ UNCHANGED <<strategy, request, attempt, last_exception, g_wake, outcomes,
                   sleeps, api_log, api_times, result, generates, start_time>>
    /\ UNCHANGED limiterVars
    /\ DGFrame

(* generate goes on to the next document of a BOTH request after a failure *)
DocumentRaiseGoesOn ==
    /\ dg_pc \in {"brd", "prd"}
    /\ g_pc = "raised"
    /\ g_pc' = "idle"
    /\ IF dg_pc = "brd" /\ dg_request.document_type = "both"
       THEN /\ dg_pc' = "prd"
            /\ UNCHANGED <<response, dg_result>>
       ELSE GenerateFails(result.exc)
    /\ UNCHANGED <<dg_request, saved, validations, selection>>
    /\ UNCHANGED <<strategy, request, attempt, last_exception, g_wake, outcomes,
                   sleeps, api_log, api_times, result, generates, start_time>>
    /\ UNCHANGED limiterVars
    /\ DGFrame

(* generate_* raised: generate lines 153-157 *)
DocumentRaise ==
    /\ dg_pc \in {"brd", "prd"}
    /\ g_pc = "raised"
    /\ g_pc' = "idle"
    /\ GenerateFails(result.exc)
    /\ UNCHANGED <<dg_request, saved, validations, selection>>
    /\ UNCHANGED <<strategy, request, attempt, last_exception, g_wake, outcomes,
                   sleeps, api_log, api_times, result, generates, start_time>>
    /\ UNCHANGED limiterVars
    /\ DGFrame

ValidationStatuses == {"passed", "warning", "failed"}

IsValidOnlyWhenPassed(overall_status) == overall_status = "passed"

(* core/models.py lines 257-260: ValidationResult.is_valid *)
IsValid(overall_status) == overall_status # "failed"

(* lines 391-401, 410-420: a document was validated; save_brd / save_prd   *)
(* is called for it when the result is valid                               *)
Validated(kind, overall_status) ==
    [doc |-> kind, status |-> overall_status, save_called |-> IsValid(overall_status)]

(* _validate_and_store lines 381-425, then generate lines 151-161; a save  *)
(* that fails is logged and ignored                                        *)
ValidateAndStore(brd_status, prd_status, brd_stored, prd_stored) ==
    /\ dg_pc = "validate"
    /\ LET has_brd == response.brd_document # NoDocument
           has_prd == response.prd_document # NoDocument
           brd_saved == IF has_brd /\ IsValid(brd_status) /\ brd_stored
                        THEN {<<"brd", response.brd_document.document_id>>} ELSE {}
           prd_saved == IF has_prd /\ IsValid(prd_status) /\ prd_stored
                        THEN {<<"prd", response.prd_document.document_id>>} ELSE {}
           brd_validated == IF has_brd THEN {Validated("brd", brd_status)} ELSE {}
           prd_validated == IF has_prd THEN {Validated("prd", prd_status)} ELSE {}
       IN  IF has_brd /\ ~IsValid(brd_status)
           THEN /\ GenerateFails("DocumentValidationError")
                /\ saved' = saved
                /\ validations' = brd_validated
           ELSE IF has_prd /\ ~IsValid(prd_status)
           THEN /\ GenerateFails("DocumentValidationError")
                /\ saved' = saved \cup brd_saved
                /\ validations' = brd_validated \cup prd_validated
           ELSE /\ dg_pc' = "completed"
                /\ response' = [response EXCEPT !.status = "completed"]
                /\ dg_result' = [status |-> "value", response |-> response',
                                 exc |-> "none"]
                /\ saved' = saved \cup brd_saved \cup prd_saved
                /\ validations' = brd_validated \cup prd_validated
    /\ UNCHANGED <<dg_request, selection>>
    /\ UNCHANGED <<limiterVars, genVars>>
    /\ DGFrame

(* document ids that a provider response may carry *)
DocIds == {1, 2}

DGResponses ==
    {[input_tokens |-> 1234, output_tokens |-> 2000, document_id |-> d,
      related_brd_id |-> r] : d \in DocIds, r \in DocIds \cup {0}}

DGRequests ==
    [user_idea_len : IdeaLens, document_type : {"brd", "prd", "both"},
     complexity : Complexities, max_cost : MaxCosts, prompt_len : PromptLens,
     brd_document_id : {0}]

DGOutcomes == {"ok", "LLMRateLimitError", "LLMTimeoutError"}

DGInit ==
    /\ now = 0
    /\ calls = 0
    /\ ticks = 0
    /\ requests_per_minute = 0
    /\ tokens_per_minute = 0
    /\ NewLimiter
    /\ strategy = "none"
    /\ NoGenerate
    /\ mp_pc = "idle"
    /\ mp_request = NoRequest
    /\ available \in (SUBSET Providers) \ {{}}
    /\ phase_docs = <<>>
    /\ mp_result = NoResult
    /\ factory = "constructed"
    /\ selection = NoSelection
    /\ NoGenerator
    /\ NoOther

DGNext ==
    \/ \E req \in DGRequests : Generate(req)
    \/ DocumentStart
    \/ BodyStart
    \/ \E api \in DGOutcomes, len \in SummaryLens, r \in DGResponses :
           BodyRest(api, TRUE, len, r)
    \/ BackoffDone
    \/ GenSleepElapse
    \/ DocumentReturn
    \/ DocumentRaise
    \/ \E bs \in ValidationStatuses, ps \in ValidationStatuses,
          b \in BOOLEAN, p \in BOOLEAN :
           ValidateAndStore(bs, ps, b, p)

DGSpec == DGInit /\ [][DGNext]_vars

----------------------------------------------------------------------------
(* fix_brd_response and fix_prd_response (src/src/llm/response_fixer.py).  *)
(* A JSON value is a record of its kind and, under a field named after the *)
(* kind, its value.  A string is a sequence of pieces of text in which     *)
(* every digit is a piece of its own; a dictionary is a function on its    *)
(* keys; a list is a sequence.                                              *)

Null == [kind |-> "null"]

Num(n) == [kind |-> "int", num |-> n]

Str(s) == [kind |-> "str", str |-> s]

Text(t) == Str(<<t>>)

List(xs) == [kind |-> "list", items |-> xs]

Dict(d) == [kind |-> "dict", entries |-> d]

(* d[k] = v *)
Set(d, k, v) == [x \in (DOMAIN d) \cup {k} |-> IF x = k THEN v ELSE d[x]]

(* d without the key k, as d.pop(k) leaves it *)
Pop(d, k) == [x \in (DOMAIN d) \ {k} |-> d[x]]

(* if old in d and new not in d: d[new] = d.pop(old) *)
Rename(d, old, new) ==
    IF old \in DOMAIN d /\ new \notin DOMAIN d THEN Set(Pop(d, old), new, d[old])
    ELSE d

(* if k not in d: d[k] = v *)
SetDefault(d, k, v) == IF k \in DOMAIN d THEN d ELSE Set(d, k, v)

(* bool(v) *)
Truthy(v) ==
    CASE v.kind = "null" -> FALSE
      [] v.kind = "int" -> v.num # 0
      [] v.kind = "str" -> v.str # <<>>
      [] v.kind = "list" -> v.items # <<>>
      [] v.kind = "dict" -> DOMAIN v.entries # {}

(* the values len() accepts *)
HasLen(v) == v.kind \in {"str", "list", "dict"}

Digits == {"0", "1", "2", "3", "4", "5", "6", "7", "8", "9"}

IsDigit(c) == c \in Digits

(* re.sub(r'[^0-9]', '', s) *)
ExtractDigits(s) == SelectSeq(s, IsDigit)

(* d.zfill(n) for a string d of fewer than n digits *)
ZFill(d, n) == [i \in 1..(n - Len(d)) |-> "0"] \o d

(* lines 25-37, 61-71, 135-144, 151-159, 176-184: an identifier that is a  *)
(* string is rebuilt from its digits; rnd is what random.randint gives     *)
FixIdentifier(v, prefix, n, rnd) ==
    IF v.kind # "str" THEN v
    ELSE LET digits == ExtractDigits(v.str)
         IN  IF Len(digits) >= n THEN Str(<<prefix>> \o SubSeq(digits, 1, n))
             ELSE IF Len(digits) > 0 THEN Str(<<prefix>> \o ZFill(digits, n))
             ELSE Str(<<prefix>> \o rnd)

(* lines 23-37 and 134-144 *)
FixDocumentId(data, prefix, rnd6) ==
    IF "document_id" \in DOMAIN data
    THEN Set(data, "document_id", FixIdentifier(data["document_id"], prefix, 6, rnd6))
    ELSE data

(* lines 42-55 *)
FixStakeholder(stakeholder) ==
    IF stakeholder.kind # "dict" THEN stakeholder
    ELSE LET d == stakeholder.entries
             split ==
                 IF "interest_influence" \in DOMAIN d
                 THEN LET level == d["interest_influence"]
                          popped == Pop(d, "interest_influence")
                      IN  SetDefault(SetDefault(popped, "interest_level", level),
                                     "influence_level", level)
                 ELSE d
         IN  Dict(SetDefault(SetDefault(split, "interest_level", Text("medium")),
                             "influence_level", Text("medium")))

(* an element of a list whose identifier key is id_key, lines 60-75,       *)
(* 149-163 and 174-188: the identifier is rebuilt, then the legacy key     *)
(* 'id' is renamed                                                          *)
FixIdOfElement(d, id_key, prefix, rnd3) ==
    LET d1 == IF id_key \in DOMAIN d
              THEN Set(d, id_key, FixIdentifier(d[id_key], prefix, 3, rnd3))
              ELSE d
    IN  Rename(d1, "id", id_key)

(* lines 59-84 *)
FixObjective(obj, rnd3) ==
    IF obj.kind # "dict" THEN obj
    ELSE LET d2 == FixIdOfElement(obj.entries, "objective_id", "OBJ-", rnd3)
             d3 == IF "success_criteria" \in DOMAIN d2
                       /\ d2["success_criteria"].kind = "str"
                   THEN Set(d2, "success_criteria", List(<<d2["success_criteria"]>>))
                   ELSE d2
         IN  Dict(Rename(d3, "kpis", "kpi_metrics"))

(* lines 148-171 *)
FixUserStory(story, rnd3) ==
    IF story.kind # "dict" THEN story
    ELSE LET d2 == FixIdOfElement(story.entries, "story_id", "US-", rnd3)
         IN  Dict(Rename(Rename(d2, "description", "story"), "title", "story"))

(* lines 174-188 *)
FixTechnicalRequirement(req, rnd3) ==
    IF req.kind # "dict" THEN req
    ELSE Dict(FixIdOfElement(req.entries, "requirement_id", "TR-", rnd3))

(* lines 40-84: the elements of the lists stakeholders and objectives are  *)
(* repaired in place                                                        *)
FixBrdLists(data, rnd3) ==
    LET f2 == IF "stakeholders" \in DOMAIN data /\ data["stakeholders"].kind = "list"
              THEN LET xs == data["stakeholders"].items
                   IN  Set(data, "stakeholders",
                           List([i \in 1..Len(xs) |-> FixStakeholder(xs[i])]))
              ELSE data
    IN  IF "objectives" \in DOMAIN f2 /\ f2["objectives"].kind = "list"
        THEN LET xs == f2["objectives"].items
             IN  Set(f2, "objectives",
                     List([i \in 1..Len(xs) |-> FixObjective(xs[i], rnd3)]))
        ELSE f2

(* lines 147-188 *)
FixPrdLists(data, rnd3) ==
    LET f2 == IF "user_stories" \in DOMAIN data /\ data["user_stories"].kind = "list"
              THEN LET xs == data["user_stories"].items
                   IN  Set(data, "user_stories",
                           List([i \in 1..Len(xs) |-> FixUserStory(xs[i], rnd3)]))
              ELSE data
    IN  IF "technical_requirements" \in DOMAIN f2
            /\ f2["technical_requirements"].kind = "list"
        THEN LET xs == f2["technical_requirements"].items
             IN  Set(f2, "technical_requirements",
                     List([i \in 1..Len(xs) |->
                               FixTechnicalRequirement(xs[i], rnd3)]))
        ELSE f2

(* lines 88-92 *)
FieldMapping(field) ==
    CASE field = "title" -> <<"project_name", "name", "document_title">>
      [] field = "problem_statement" -> <<"problem", "business_problem", "challenge">>
      [] field = "success_metrics" -> <<"metrics", "kpis", "success_criteria">>
      [] OTHER -> <<>>

(* line 99 *)
NestedKeys == <<"document", "brd", "brd_document">>

(* lines 113-121 *)
RootDefault(fx, field) ==
    CASE field = "title" ->
             Set(fx, "title", IF "project_name" \in DOMAIN fx THEN fx["project_name"]
                              ELSE Text("Untitled Project"))
      [] field = "problem_statement" ->
             Set(fx, "problem_statement",
                 Text("Problem statement to be defined based on business objectives."))
      [] field = "success_metrics" ->
             IF "success_metrics" \in DOMAIN fx /\ fx["success_metrics"].kind = "list"
             THEN fx
             ELSE Set(fx, "success_metrics",
                      List(<<Text("Success metrics to be defined")>>))
      [] OTHER -> fx

(* lines 95-121: one turn of the loop over root_fields *)
BackfillRootField(fx, field) ==
    IF field \in DOMAIN fx /\ Truthy(fx[field]) THEN fx
    ELSE LET key == FirstIn(NestedKeys,
                            {k \in DOMAIN fx : /\ fx[k].kind = "dict"
                                               /\ field \in DOMAIN fx[k].entries})
             alt == FirstIn(FieldMapping(field), {k \in DOMAIN fx : Truthy(fx[k])})
             f1 == IF key # "none" THEN Set(fx, field, fx[key].entries[field])
                   ELSE IF alt # "none" THEN Set(fx, field, fx[alt])
                   ELSE fx
         IN  IF (key # "none" \/ alt # "none") /\ field \in DOMAIN f1
                 /\ Truthy(f1[field])
             THEN f1
             ELSE RootDefault(f1, field)

(* lines 94-95: the loop over root_fields, in the order of the list *)
BackfillRoot(fx) ==
    BackfillRootField(
        BackfillRootField(
            BackfillRootField(
                BackfillRootField(BackfillRootField(fx, "title"), "executive_summary"),
                "business_context"),
            "problem_statement"),
        "success_metrics")

FixRaises(e) == [status |-> "exception", val |-> <<>>, exc |-> e]

FixReturns(fx) == [status |-> "value", val |-> fx, exc |-> "none"]

(* lines 123 and 190: the message logged before the return takes the       *)
(* length of the value under the key, an empty list when there is none     *)
LoggedLength(fx, key, returned) ==
    IF key \in DOMAIN fx /\ ~HasLen(fx[key]) THEN FixRaises("TypeError") ELSE returned

(* lines 12-125 *)
FixBrdResponse(data, rnd6, rnd3) ==
    LET fx == BackfillRoot(FixBrdLists(FixDocumentId(data, "BRD-", rnd6), rnd3))
    IN  LoggedLength(fx, "stakeholders", FixReturns(fx))

(* lines 128-192 *)
FixPrdResponse(data, rnd6, rnd3) ==
    LET fx == FixPrdLists(FixDocumentId(data, "PRD-", rnd6), rnd3)
    IN  LoggedLength(fx, "user_stories", FixReturns(fx))

(* the dictionaries handed to the functions: a key is left out when its    *)
(* choice is Absent                                                         *)
Absent == [kind |-> "absent"]

MakeDict(r) == [k \in {x \in DOMAIN r : r[x].kind # "absent"} |-> r[k]]

DigitRun(m) == [i \in 1..m |-> <<"1", "2", "3", "4", "5", "6", "7", "8", "9">>[i]]

(* strings with 0 to n + 1 digits, with and without other text around them *)
IdStrings(n) ==
    {DigitRun(m) : m \in 0..(n + 1)}
        \cup {<<"x">> \o DigitRun(m) : m \in 0..(n + 1)}
        \cup {DigitRun(m) \o <<"-", "y">> : m \in 0..(n + 1)}
        \cup {DigitRun(a) \o <<"-">> \o DigitRun(b) : a, b \in 1..2}

IdValues(prefix, n) ==
    {Absent, Null, Num(7), Str(<<prefix>> \o DigitRun(n))}
        \cup {Str(s) : s \in IdStrings(n)}

(* list elements with an identifier under its key or under the legacy 'id' *)
IdElements(id_key, prefix) ==
    {Null, Num(1), Text("first")}
        \cup {Dict(MakeDict([k \in {id_key} |-> v])) : v \in IdValues(prefix, 3)}
        \cup {Dict([id |-> v]) : v \in {Num(1), Text("first"), Str(<<"1">>),
                                        Str(<<prefix>> \o DigitRun(3))}}
        \cup {Dict([k \in {id_key, "id"} |-> Str(<<"4", "2">>)])}

ListValues(elements) ==
    {Absent, Null, Num(3), Text("to be defined"), List(<<>>)}
        \cup {List(<<e>>) : e \in elements}

StakeholderElements ==
    {Text("the sponsor"),
     Dict([name |-> Text("sponsor")]),
     Dict([name |-> Text("sponsor"), interest_influence |-> Text("high")]),
     Dict([name |-> Text("sponsor"), interest_influence |-> Text("high"),
           interest_level |-> Text("low")]),
     Dict([name |-> Text("sponsor"), interest_level |-> Text("low"),
           influence_level |-> Text("high")])}

ObjectiveElements ==
    IdElements("objective_id", "OBJ-")
        \cup {Dict([objective_id |-> Text("OBJ-1"),
                    success_criteria |-> Text("doubles the revenue"),
                    kpis |-> List(<<Text("revenue")>>)])}

RootValues ==
    {MakeDict(r) :
        r \in [title : {Absent, Str(<<>>), Text("Ordering portal")},
               project_name : {Absent, Text("Portal")},
               document : {Absent, Dict([title |-> Text("Nested title")])},
               success_metrics : {Absent, Text("more orders")},
               kpis : {Absent, List(<<Text("orders per day")>>)}]}

BrdInputs ==
    {MakeDict([document_id |-> v, stakeholders |-> Absent]) : v \in IdValues("BRD-", 6)}
        \cup {MakeDict([stakeholders |-> v, objectives |-> w]) :
                 v \in ListValues(StakeholderElements),
                 w \in {Absent, List(<<Dict([id |-> Text("first")])>>)}}
        \cup {MakeDict([objectives |-> v, document_id |-> Text("brd 7")]) :
                 v \in ListValues(ObjectiveElements)}
        \cup RootValues

StoryElements ==
    IdElements("story_id", "US-")
        \cup {Dict([id |-> Str(<<"9">>), description |-> Text("As a buyer"),
                    title |-> Text("Buying")]),
              Dict([story_id |-> Str(<<"9">>), title |-> Text("Buying")])}

PrdInputs ==
    {MakeDict([document_id |-> v, user_stories |-> Absent]) : v \in IdValues("PRD-", 6)}
        \cup {MakeDict([user_stories |-> v, technical_requirements |-> w]) :
                 v \in ListValues(StoryElements),
                 w \in {Absent, Null, List(<<Dict([id |-> Text("first")])>>)}}
        \cup {MakeDict([technical_requirements |-> v, document_id |-> Text("prd 7")]) :
                 v \in ListValues(IdElements("requirement_id", "TR-"))}

(* random.randint(100000, 999999) and random.randint(100, 999), as digits *)
Random6 == {<<"1", "0", "0", "0", "0", "0">>, <<"9", "9", "9", "9", "9", "9">>}

Random3 == {<<"1", "0", "0">>, <<"9", "9", "9">>}

FixerFrame ==
    UNCHANGED <<limiterVars, genVars, mpVars, factoryVars, dgVars, clientVars, costVars,
                cacheVars>>

(* a caller calls fix_brd_response(data); the copy of line 16 is shallow,  *)
(* so the caller's lists hold the repaired elements afterwards             *)
FixBrd(data, rnd6, rnd3) ==
    /\ fixer_call.fn = "none"
    /\ fixer_call' = [fn |-> "fix_brd_response", arg |-> data]
    /\ fixed' = FixBrdResponse(data, rnd6, rnd3)
    /\ response_data' = FixBrdLists(data, rnd3)
    /\ FixerFrame

(* a caller calls fix_prd_response(data) *)
FixPrd(data, rnd6, rnd3) ==
    /\ fixer_call.fn = "none"
    /\ fixer_call' = [fn |-> "fix_prd_response", arg |-> data]
    /\ fixed' = FixPrdResponse(data, rnd6, rnd3)
    /\ response_data' = FixPrdLists(data, rnd3)
    /\ FixerFrame

FixerInit ==
    /\ now = 0
    /\ calls = 0
    /\ ticks = 0
    /\ requests_per_minute = 1
    /\ tokens_per_minute = 1
    /\ NewLimiter
    /\ strategy = "none"
    /\ NoGenerate
    /\ NoPipeline
    /\ NoFactory
    /\ NoGenerator
    /\ NoOther

FixerNext ==
    \/ \E data \in BrdInputs, rnd6 \in Random6, rnd3 \in Random3 :
           FixBrd(data, rnd6, rnd3)
    \/ \E data \in PrdInputs, rnd6 \in Random6, rnd3 \in Random3 :
           FixPrd(data, rnd6, rnd3)

FixerSpec == FixerInit /\ [][FixerNext]_vars

----------------------------------------------------------------------------
(* The three provider clients (src/src/llm/openai_strategy.py,             *)
(* claude_strategy.py, gemini_strategy.py): one execution of the body of   *)
(* generate_brd / generate_prd (src/src/llm/client.py) from the HTTP       *)
(* request on.  The reply of the provider is described by what the code    *)
(* looks at: how the request ended, the status, whether the body is JSON   *)
(* with the path to the text payload, the form of that text, the token     *)
(* usage, and the keys of the JSON object in the text.                      *)

ReportedUsage == [reported |-> TRUE, input_tokens |-> 1234, output_tokens |-> 2000]

Reply(event, status, envelope, text, usage, document_id, fields) ==
    [event |-> event, status |-> status, envelope |-> envelope, text |-> text,
     usage |-> usage, document_id |-> document_id, fields |-> fields]

HttpStatuses == {200, 201, 429, 500}

Replies ==
    {Reply(e, 0, "none", "none", NoUsage, "none", "none") :
        e \in {"timeout", "client_error"}}
      \cup {Reply("response", s, "ok", "json", ReportedUsage, "valid", "complete") :
               s \in HttpStatuses \ {200}}
      \cup {Reply("response", 200, e, "none", NoUsage, "none", "none") :
               e \in {"no_path", "bad_json", "not_json"}}
      \cup {Reply("response", 200, "ok", t, u, d, f) :
               t \in {"json", "fenced", "embedded", "garbage"},
               u \in {NoUsage, ReportedUsage},
               d \in {"absent", "valid"},
               f \in {"complete", "lacking"}}

(* the text payload from which the client gets a JSON object:              *)
(* openai_strategy.py lines 108-115 (json.loads only), claude_strategy.py  *)
(* lines 104-132 (code fences stripped, then a search for {...}),          *)
(* gemini_strategy.py lines 118-136 (code fences stripped after a failure) *)
TextParses(prov, text) ==
    CASE prov = "openai" -> text = "json"
      [] prov = "claude" -> text \in {"json", "fenced", "embedded"}
      [] prov = "gemini" -> text \in {"json", "fenced"}

(* the exception raised inside the try block of _call_api, "none" when the *)
(* block reaches its return: openai_strategy.py lines 82-124,              *)
(* claude_strategy.py lines 78-141, gemini_strategy.py lines 86-144.       *)
(* aiohttp raises asyncio.TimeoutError when the timeout passes and a       *)
(* ClientError when the connection fails or the body is not of a JSON      *)
(* content type; response.json() raises JSONDecodeError on a body that is  *)
(* not JSON.                                                                *)
RaisedInTry(prov, reply) ==
    CASE reply.event = "timeout" -> "TimeoutError"
      [] reply.event = "client_error" -> "ClientError"
      [] reply.status = 429 -> "LLMRateLimitError"
      [] reply.status # 200 -> "LLMConnectionError"
      [] reply.envelope = "not_json" -> "ClientError"
      [] reply.envelope = "bad_json" -> "JSONDecodeError"
      [] reply.envelope = "no_path" ->
             IF prov = "gemini" THEN "LLMInvalidResponseError" ELSE "KeyError"
      [] ~TextParses(prov, reply.text) -> "LLMInvalidResponseError"
      [] OTHER -> "none"

(* the except clauses of _call_api: claude_strategy.py lines 143-148,      *)
(* gemini_strategy.py lines 146-151, openai_strategy.py lines 127-132.     *)
(* The first clause of the OpenAI client names aiohttp.ClientTimeout,      *)
(* which is not an exception class: matching any exception against it      *)
(* raises TypeError.                                                        *)
ExceptClauses(prov, e) ==
    IF e = "none" THEN "none"
    ELSE IF prov = "openai" THEN "TypeError"
    ELSE IF e = "TimeoutError" THEN "LLMTimeoutError"
    ELSE IF e = "ClientError" THEN "LLMConnectionError"
    ELSE e

(* what leaves _call_api: an exception, or "none" when it returns *)
CallApi(prov, reply) == ExceptClauses(prov, RaisedInTry(prov, reply))

(* openai_strategy.py lines 105-124, claude_strategy.py lines 134-141,     *)
(* gemini_strategy.py lines 138-144: the dictionary returned; its usage    *)
(* counts are 0 where the reply reports none                                *)
ParsedContent(reply) ==
    [status |-> "value", exc |-> "none", document_id |-> reply.document_id,
     fields |-> reply.fields,
     usage |-> [input_tokens |-> IF reply.usage.reported
                                 THEN reply.usage.input_tokens ELSE 0,
                output_tokens |-> IF reply.usage.reported
                                  THEN reply.usage.output_tokens ELSE 0]]

(* openai_strategy.py lines 357-375: the keys of document_data *)
BrdDocumentData ==
    {"document_id", "project_name", "version", "created_date", "last_modified",
     "status", "executive_summary", "business_context", "objectives", "scope",
     "stakeholders", "requirements", "assumptions", "constraints", "risks",
     "success_criteria", "timeline_milestones"}

(* core/models.py lines 80-101: the fields of BRDDocument without default *)
BRDDocumentRequired ==
    {"document_id", "title", "executive_summary", "business_context",
     "problem_statement", "objectives", "scope", "stakeholders", "success_metrics"}

(* openai_strategy.py lines 412-434: the keys of document_data *)
PrdDocumentData ==
    {"document_id", "product_name", "version", "created_date", "last_modified",
     "status", "related_brd_id", "product_overview", "target_audience",
     "user_personas", "user_stories", "functional_requirements",
     "non_functional_requirements", "technical_requirements", "ui_ux_requirements",
     "data_requirements", "integration_requirements", "success_metrics",
     "release_plan", "dependencies", "risks"}

(* core/models.py lines 154-188: the fields of PRDDocument without default *)
PRDDocumentRequired ==
    {"document_id", "product_name", "product_vision", "target_audience",
     "value_proposition", "user_stories", "features", "technical_requirements",
     "technology_stack", "acceptance_criteria", "metrics_and_kpis"}

ClientRaised(e) ==
    [status |-> "exception", exc |-> e, document_id |-> <<>>, cost |-> NoCost]

(* line 358 and line 413: the document_id of the response, or else one     *)
(* made of the time of day, hms being strftime('%H%M%S')                    *)
DocumentIdOrDefault(document_type, content, hms) ==
    LET prefix == IF document_type = "brd" THEN "BRD-" ELSE "PRD-"
    IN  IF content.document_id = "absent" THEN <<prefix>> \o hms
        ELSE <<prefix>> \o DigitRun(6)

(* _parse_brd_response, _parse_prd_response (openai_strategy.py lines      *)
(* 339-382 and 384-441, the same in the other two clients): a key read     *)
(* with response[...] that is missing raises KeyError, a required field    *)
(* that document_data does not supply makes the model raise a              *)
(* ValidationError, which is a ValueError; both become                     *)
(* LLMInvalidResponseError                                                  *)
ParseResponse(document_type, content, hms) ==
    LET data == IF document_type = "brd" THEN BrdDocumentData ELSE PrdDocumentData
        required == IF document_type = "brd" THEN BRDDocumentRequired
                    ELSE PRDDocumentRequired
    IN  IF content.fields # "complete" THEN ClientRaised("LLMInvalidResponseError")
        ELSE IF ~(required \subseteq data) THEN ClientRaised("LLMInvalidResponseError")
        ELSE [status |-> "value", exc |-> "none",
              document_id |-> DocumentIdOrDefault(document_type, content, hms),
              cost |-> NoCost]

(* client.py lines 253-254 and 325-326: the token counts of the response,  *)
(* the estimates where the response has none                                *)
TokensCounted(content, req) ==
    [input_tokens |->
         IF "usage" \in DOMAIN content /\ "input_tokens" \in DOMAIN content.usage
         THEN content.usage.input_tokens ELSE EstimatedInputTokens(req),
     output_tokens |->
         IF "usage" \in DOMAIN content /\ "output_tokens" \in DOMAIN content.usage
         THEN content.usage.output_tokens ELSE EstimatedOutputTokens(req)]

ParseStep(document_type) ==
    IF document_type = "brd" THEN "_parse_brd_response" ELSE "_parse_prd_response"

ClientFrame ==
    /\ UNCHANGED <<strategy, g_pc, attempt, last_exception, g_wake, outcomes, sleeps,
                   api_log, api_times, result, generates, start_time, config>>
    /\ UNCHANGED <<limiterVars, mpVars, factoryVars, dgVars, fixerVars, costVars,
                   cacheVars>>

(* client.py lines 225-246 and 295-318: the prompt is formatted, the       *)
(* estimated cost is within request.max_cost, and _call_api posts the      *)
(* HTTP request                                                             *)
ClientSend(req) ==
    /\ client_pc = "idle"
    /\ ~CostExceeded(strategy, req)
    /\ request' = req
    /\ client_pc' = "awaiting"
    /\ UNCHANGED <<http, parsed_content, steps, client_result>>
    /\ ClientFrame

(* the request ends with reply: the rest of _call_api, then client.py      *)
(* lines 249-270 or 321-346                                                 *)
ClientReceive(reply, hms) ==
    /\ client_pc = "awaiting"
    /\ client_pc' = "done"
    /\ http' = reply
    /\ LET exc == CallApi(strategy, reply)
           content == ParsedContent(reply)
           doc == ParseResponse(request.document_type, content, hms)
       IN  IF exc # "none"
           THEN /\ parsed_content' = [NoContent EXCEPT !.status = "exception",
                                                       !.exc = exc]
                /\ steps' = <<"_call_api">>
                /\ client_result' = ClientRaised(exc)
           ELSE /\ parsed_content' = content
                /\ steps' = <<"_call_api", ParseStep(request.document_type)>>
                /\ client_result' =
                       IF doc.status = "exception" THEN doc
                       ELSE [doc EXCEPT
                                !.cost = ActualCost(strategy,
                                                    TokensCounted(content, request))]
    /\ UNCHANGED request
    /\ ClientFrame

(* datetime.now().strftime('%H%M%S') *)
TimesOfDay == {<<"0", "0", "0", "0", "0", "0">>, <<"2", "3", "5", "9", "5", "9">>}

ClientInit ==
    /\ now = 0
    /\ calls = 0
    /\ ticks = 0
    /\ requests_per_minute = 60
    /\ tokens_per_minute = 90000
    /\ NewLimiter
    /\ strategy \in Providers
    /\ NoGenerate
    /\ NoPipeline
    /\ NoFactory
    /\ NoGenerator
    /\ NoOther

ClientNext ==
    \/ \E req \in Requests : ClientSend(req)
    \/ \E reply \in Replies, hms \in TimesOfDay : ClientReceive(reply, hms)

ClientSpec == ClientInit /\ [][ClientNext]_vars

----------------------------------------------------------------------------
(* Properties of the retry wrapper *)

TransientErrors ==
    {"LLMRateLimitError", "LLMConnectionError", "LLMInvalidResponseError"}

BodyRuns == Len(outcomes)

InProgress == g_pc \in {"backoff", "attempt", "acquiring", "acquired"}

TwoRateLimits ==
    /\ BodyRuns >= 2
    /\ outcomes[1] = "LLMRateLimitError"
    /\ outcomes[2] = "LLMRateLimitError"

(* C1: a generate call whose provider call raises RateLimited on the first *)
(* two attempts and succeeds on the third is retried exactly twice, with   *)
(* one backoff sleep before each retry, and returns the value of the third *)
(* attempt; no exception reaches the caller.                               *)
C1_RetriedTwiceThenReturns ==
    /\ (TwoRateLimits /\ BodyRuns = 2)
           => InProgress /\ result.status = "none"
    /\ (TwoRateLimits /\ BodyRuns >= 3 /\ outcomes[3] = "ok")
           => /\ g_pc = "returned"
              /\ result.status = "value"
              /\ result.doc.attempt = 3
              /\ result.exc = "none"
              /\ BodyRuns = 3
              /\ Len(api_log) = 3
              /\ sleeps = <<BaseDelay, 2 * BaseDelay>>

C1_Witness ==
    /\ g_pc = "returned"
    /\ outcomes = <<"LLMRateLimitError", "LLMRateLimitError", "ok">>

AllTransient ==
    /\ outcomes # <<>>
    /\ \A k \in DOMAIN outcomes : outcomes[k] \in TransientErrors

(* C2: when every attempt raises a retryable error the wrapper goes on     *)
(* until max_retries attempts are made and then re-raises the last         *)
(* exception raised; it never returns normally and never swallows the      *)
(* error.                                                                   *)
C2_ExhaustedReraisesLast ==
    AllTransient =>
        /\ BodyRuns <= MaxRetries
        /\ result.status # "value"
        /\ BodyRuns < MaxRetries => InProgress /\ result.status = "none"
        /\ BodyRuns = MaxRetries
               => /\ g_pc = "raised"
                  /\ result.status = "exception"
                  /\ result.exc = outcomes[MaxRetries]

C2_Witness ==
    /\ AllTransient
    /\ g_pc = "raised"
    /\ BodyRuns = MaxRetries
    /\ outcomes[1] # outcomes[MaxRetries]

OverBudget == EstimatedCost(strategy, request) > request.max_cost

(* C3: if the estimated cost exceeds request.max_cost the call fails with  *)
(* CostExceeded, _call_api is never invoked for the request, and the error *)
(* is not retried: the body runs exactly once.                             *)
C3_CostExceededTerminal ==
    /\ (g_pc # "idle" /\ OverBudget) => api_log = <<>>
    /\ (g_pc # "idle" /\ OverBudget /\ outcomes # <<>> /\ outcomes[1] # "IndexError")
           => /\ outcomes = <<"LLMCostExceededError">>
              /\ g_pc = "raised"
              /\ result.status = "exception"
              /\ result.exc = "LLMCostExceededError"
    /\ \A k \in DOMAIN outcomes : outcomes[k] = "LLMCostExceededError" => OverBudget

C3_Witness ==
    /\ g_pc = "raised"
    /\ outcomes = <<"LLMCostExceededError">>
    /\ granted # <<>>

(* C4 as claimed: a provider call that fails with TimedOut is retried, it  *)
(* does not reach the caller on its first occurrence.                      *)
C4_TimeoutRetried ==
    (outcomes # <<>> /\ outcomes[BodyRuns] = "LLMTimeoutError" /\ BodyRuns < MaxRetries)
        => g_pc # "raised"

(* C4 amended: TimedOut is not retried; the first LLMTimeoutError ends the *)
(* call and reaches the caller, with no backoff sleep after it.            *)
C4_TimeoutNotRetried ==
    \A k \in DOMAIN outcomes :
        outcomes[k] = "LLMTimeoutError"
            => /\ k = BodyRuns
               /\ g_pc = "raised"
               /\ result.status = "exception"
               /\ result.exc = "LLMTimeoutError"
               /\ Len(sleeps) = k - 1

C4_Witness ==
    /\ g_pc = "raised"
    /\ outcomes = <<"LLMConnectionError", "LLMTimeoutError">>

----------------------------------------------------------------------------
(* Properties of the multi-pass pipeline *)

PhaseOrder == <<"gemini", "openai", "claude">>

Rank(p) == CASE p = "gemini" -> 1 [] p = "openai" -> 2 [] p = "claude" -> 3

(* C10: in every run of the sequential pipeline the provider calls occur   *)
(* in the order Gemini, OpenAI, Claude: a phase calls its provider only    *)
(* after the previous phase returned a document, no phase is skipped, and  *)
(* the provider of a phase is the same for every complexity.               *)
C10_FixedPhaseOrder ==
    /\ \A i, j \in DOMAIN api_log :
           i < j => Rank(api_log[i]) <= Rank(api_log[j])
    /\ \A k \in DOMAIN api_log :
           /\ Len(phase_docs) >= Rank(api_log[k]) - 1
           /\ \A r \in 1..(Rank(api_log[k]) - 1) :
                  \E m \in DOMAIN api_log : m < k /\ api_log[m] = PhaseOrder[r]
    /\ \A k \in DOMAIN phase_docs : k <= 3 /\ phase_docs[k].by = PhaseOrder[k]
    /\ mp_pc = "done"
           => /\ Len(phase_docs) = 3
              /\ mp_result.status = "value"
              /\ [mp_result.doc EXCEPT !.cost = phase_docs[3].cost] = phase_docs[3]

C10_Witness ==
    /\ mp_pc = "done"
    /\ mp_request.complexity = "complex"
    /\ Len(api_log) > 3

----------------------------------------------------------------------------
(* Properties of the RateLimiter *)

Grants == DOMAIN granted

(* the calls that returned during the 60 seconds that start at time s *)
GrantedFrom(s) == {j \in Grants : granted[j].at >= s /\ granted[j].at - s < Window}

(* the calls that had returned within the window that is current at time c *)
GrantedBefore(i, c) == {j \in Grants : j < i /\ c - granted[j].at < Window}

RECURSIVE TokensOf(_)
TokensOf(js) ==
    IF js = {} THEN 0
    ELSE LET j == CHOOSE k \in js : TRUE
         IN  granted[j].tokens + TokensOf(js \ {j})

(* C5: for acquire calls made one after another, the number of calls that  *)
(* returned during any 60-second interval never exceeds                    *)
(* requests_per_minute, calls that returned after a wait included.         *)
C5_RequestLimit ==
    \A i \in Grants :
        Cardinality(GrantedFrom(granted[i].at)) <= requests_per_minute

(* C6: when a call returns, the tokens of the calls that returned during   *)
(* the last 60 seconds, its own estimate included, do not exceed           *)
(* tokens_per_minute (stated for estimates that fit the limit at all).     *)
C6_TokenLimit ==
    \A i \in Grants :
        (\A j \in Grants : granted[j].tokens <= tokens_per_minute)
            => TokensOf(GrantedBefore(i, granted[i].at) \cup {i}) <= tokens_per_minute

(* C7: when requests_per_minute calls have returned within the window that *)
(* is current when acquire is called, that call does not return until the  *)
(* oldest of them is at least 60 seconds old.                              *)
C7_WaitsForOldest ==
    \A i \in Grants :
        LET inWindow == GrantedBefore(i, granted[i].entered)
        IN  Cardinality(inWindow) >= requests_per_minute
                => \A j \in inWindow : granted[i].at - granted[j].at >= Window

C9_Monitor ==
    \A i, j \in Grants :
        (i # j /\ granted[i].waited # 0 /\ granted[i].waited = granted[j].waited)
            => Cardinality(GrantedFrom(granted[i].at) \cup GrantedFrom(granted[j].at))
                   <= requests_per_minute

----------------------------------------------------------------------------
(* Properties of the results of the multi-pass pipeline *)

PhaseCosts == [k \in DOMAIN phase_docs |-> phase_docs[k].cost]

(* C11: when a phase of the multi-pass pipeline fails, the pipeline        *)
(* aborts: the caller holds the exception only, with no document and no    *)
(* cost metadata of the completed phases, every provider call made belongs *)
(* to a phase up to the failing one, and nothing is called afterwards.     *)
C11_FailureAbortsPipeline ==
    /\ [](mp_pc = "failed" =>
             /\ mp_result.status = "exception"
             /\ mp_result.exc # "none"
             /\ mp_result.doc = NoDocument
             /\ mp_result.doc.cost = NoCost
             /\ \A k \in DOMAIN api_log : Rank(api_log[k]) <= Len(phase_docs) + 1)
    /\ [][mp_pc = "failed" => (api_log' = api_log /\ mp_result' = mp_result)]_vars

C11_Witness ==
    /\ mp_pc = "failed"
    /\ Len(phase_docs) = 2
    /\ phase_docs[1].cost.total_cost > 0
    /\ Len(outcomes) = MaxRetries
    /\ mp_result.exc = "LLMRateLimitError"

(* C12: after a successful multi-pass run the combined CostMetadata has    *)
(* input_tokens, output_tokens and total_cost equal to the sums over the   *)
(* three phases, and its per-1K rate is total cost / (total tokens /       *)
(* 1000), or 0 when there are no tokens.                                   *)
C12_CombinedCostIsSum ==
    mp_pc = "done" =>
        LET c == mp_result.doc.cost
            p == PhaseCosts
            tokens == c.input_tokens + c.output_tokens
        IN  /\ Len(p) = 3
            /\ c.input_tokens = p[1].input_tokens + p[2].input_tokens + p[3].input_tokens
            /\ c.output_tokens = p[1].output_tokens + p[2].output_tokens + p[3].output_tokens
            /\ c.total_cost = p[1].total_cost + p[2].total_cost + p[3].total_cost
            /\ c.cost_per_1k_output = c.cost_per_1k_input
            /\ IF tokens = 0
               THEN c.cost_per_1k_input.num = 0
               ELSE /\ c.cost_per_1k_input.den = tokens
                    /\ c.cost_per_1k_input.num = c.total_cost * 10 * 1000

C12_Witness ==
    /\ mp_pc = "done"
    /\ PhaseCosts[1].total_cost > 0
    /\ PhaseCosts[2].total_cost > PhaseCosts[1].total_cost
    /\ PhaseCosts[3].input_tokens # PhaseCosts[2].input_tokens
    /\ mp_result.doc.cost.total_cost > PhaseCosts[3].total_cost

(* C13: the combined CostMetadata of a successful multi-pass run keeps a   *)
(* breakdown map from which the cost of each of the phases gemini, openai  *)
(* and claude can be read back.                                            *)
C13_BreakdownRetained ==
    mp_pc = "done" =>
        /\ "breakdown" \in DOMAIN mp_result.doc.cost
        /\ mp_result.doc.cost.breakdown = CostsByProvider(phase_docs)

----------------------------------------------------------------------------
(* Properties of the provider selection *)

(* the last call selected a provider by complexity and cost *)
ByComplexity ==
    \/ selection.call = "_select_provider_by_complexity"
    \/ selection.call = "create_strategy" /\ selection.provider = "none"

(* the complexity that call selected for *)
TaskComplexity ==
    IF selection.complexity # "none" THEN selection.complexity
    ELSE IF selection.user_idea_len > 0 /\ selection.document_type # "none"
    THEN EstimateComplexity(selection.user_idea_len, selection.document_type)
    ELSE "moderate"

Preferred ==
    CASE TaskComplexity = "simple" -> "gemini"
      [] TaskComplexity = "moderate" -> "openai"
      [] TaskComplexity = "complex" -> "claude"

(* C14: for every complexity, every optional maximum cost and every        *)
(* non-empty set of providers with credentials, a selection by complexity  *)
(* (directly or through create_strategy without a provider) returns a      *)
(* provider of the available set.                                          *)
C14_ReturnsAvailable ==
    (ByComplexity /\ available # {})
        => /\ selection.exc = "none"
           /\ selection.returned \in available

C14_Witness ==
    /\ selection.call = "create_strategy"
    /\ selection.provider = "none"
    /\ Preferred \notin available
    /\ selection.max_cost = 10000
    /\ selection.returned \in available

(* C15: with all three providers available, complexity complex and a       *)
(* maximum cost of 0.01 dollar, the selection returns Gemini.              *)
C15_CheapestUnderLowBudget ==
    (/\ selection.call = "_select_provider_by_complexity"
     /\ available = Providers
     /\ selection.complexity = "complex"
     /\ selection.max_cost = 10000)
        => selection.returned = "gemini"

(* C16: whenever a maximum cost is given, the provider the selection       *)
(* returns has an estimated cost, at the complexity selected for, of at    *)
(* most that maximum.                                                      *)
C16_SelectedIsAffordable ==
    (ByComplexity /\ selection.max_cost # -1 /\ selection.returned # "none")
        => EstimateCostForProvider(selection.returned, TaskComplexity)
               <= selection.max_cost

(* C17: without a maximum cost the selection returns the provider          *)
(* preferred for the complexity when it has credentials, and otherwise the *)
(* first of OpenAI, Claude, Gemini that has credentials.                   *)
C17_PreferredElseFallbackOrder ==
    (ByComplexity /\ selection.max_cost = -1)
        => selection.returned =
               IF Preferred \in available THEN Preferred
               ELSE IF "openai" \in available THEN "openai"
               ELSE IF "claude" \in available THEN "claude"
               ELSE "gemini"

C17_Witness ==
    /\ ByComplexity
    /\ selection.max_cost = -1
    /\ TaskComplexity = "complex"
    /\ available = {"openai", "gemini"}
    /\ selection.returned = "openai"

(* C18 as stated: NoAvailableProviderError is raised only by the           *)
(* construction of a factory when no provider has credentials, and by no   *)
(* later call.                                                             *)
C18_OnlyAtConstruction ==
    selection.exc = "NoAvailableProviderError"
        => selection.call = "__init__" /\ available = {}

(* C18 amended: NoAvailableProviderError is raised by the construction     *)
(* exactly when no provider has credentials; on a constructed factory it   *)
(* is raised only by create_strategy called with an explicit provider that *)
(* has no credentials, never by a selection by complexity.                 *)
C18_OnlyAtConstructionOrExplicit ==
    /\ factory = "failed" <=> (factory # "none" /\ available = {})
    /\ selection.exc = "NoAvailableProviderError"
           => \/ selection.call = "__init__" /\ available = {}
              \/ /\ selection.call = "create_strategy"
                 /\ selection.provider # "none"
                 /\ selection.provider \notin available
    /\ ByComplexity => selection.exc = "none"

C18_Witness ==
    /\ factory = "constructed"
    /\ selection.call = "create_strategy"
    /\ selection.provider = "claude"
    /\ selection.exc = "NoAvailableProviderError"

(* C19: when the required context size exceeds the context window of the   *)
(* provider chosen by complexity and cost, and some provider with          *)
(* credentials has a window that suffices, the selection returns a         *)
(* provider with credentials whose window holds the required context.      *)
C19_EscalatesToAvailable ==
    (/\ selection.call = "get_optimal_strategy"
     /\ selection.required_context_size
            > MaxContextTokens(OptimalByCost(selection.complexity, selection.max_cost))
     /\ \E p \in available : MaxContextTokens(p) >= selection.required_context_size)
        => /\ selection.returned \in available
           /\ MaxContextTokens(selection.returned) >= selection.required_context_size

----------------------------------------------------------------------------
(* Properties of DocumentGenerator.generate *)

StatusOf(kind) ==
    IF \E v \in validations : v.doc = kind
    THEN (CHOOSE v \in validations : v.doc = kind).status
    ELSE "none"

C22_FailedResponseReturned ==
    (dg_pc = "failed" /\ response.error_message = "DocumentValidationError")
        => /\ dg_result.status = "value"
           /\ dg_result.response.status = "failed"
           /\ dg_result.response.error_message # "none"
           /\ dg_result.response.brd_document = response.brd_document
           /\ dg_result.response.prd_document = response.prd_document

----------------------------------------------------------------------------
(* Properties of the response fixer *)

(* C24: fix_brd_response and fix_prd_response are total: whatever the      *)
(* dictionary they are given, and whatever the types of its values, they   *)
(* raise no exception and return a repaired dictionary.                     *)
C24_FixerTotal == fixer_call.fn # "none" => fixed.status = "value"

(* the pattern prefix followed by exactly n digits *)
Matches(v, prefix, n) ==
    /\ v.kind = "str"
    /\ Len(v.str) = n + 1
    /\ v.str[1] = prefix
    /\ \A i \in 2..(n + 1) : v.str[i] \in Digits

(* the identifier an element was supplied with: under its key, or else     *)
(* under the legacy key 'id'                                                *)
SuppliedId(d, id_key) ==
    IF id_key \in DOMAIN d THEN d[id_key]
    ELSE IF "id" \in DOMAIN d THEN d["id"]
    ELSE Absent

ElementIdsCanonical(list_key, id_key, prefix) ==
    LET arg == fixer_call.arg
    IN  (list_key \in DOMAIN arg /\ arg[list_key].kind = "list") =>
            \A i \in 1..Len(arg[list_key].items) :
                LET e == arg[list_key].items[i]
                IN  (e.kind = "dict" /\ SuppliedId(e.entries, id_key).kind = "str") =>
                        LET out == fixed.val[list_key].items[i].entries
                        IN  /\ id_key \in DOMAIN out
                            /\ Matches(out[id_key], prefix, 3)

(* C25: every identifier supplied to the fixer as a string comes out in    *)
(* its canonical pattern: document_id as BRD- or PRD- and exactly 6        *)
(* digits, objective_id, story_id and requirement_id as OBJ-, US- and TR-  *)
(* and exactly 3 digits, also when it was supplied under the legacy key    *)
(* 'id' and renamed.                                                        *)
C25_IdentifiersCanonical ==
    fixed.status = "value" =>
        LET arg == fixer_call.arg
            brd == fixer_call.fn = "fix_brd_response"
        IN  /\ ("document_id" \in DOMAIN arg /\ arg["document_id"].kind = "str") =>
                    Matches(fixed.val["document_id"], IF brd THEN "BRD-" ELSE "PRD-", 6)
            /\ brd => ElementIdsCanonical("objectives", "objective_id", "OBJ-")
            /\ ~brd => /\ ElementIdsCanonical("user_stories", "story_id", "US-")
                       /\ ElementIdsCanonical("technical_requirements",
                                              "requirement_id", "TR-")

----------------------------------------------------------------------------
(* Properties of the provider clients *)

FixSteps == {"fix_brd_response", "fix_prd_response"}

ParseSteps == {"_parse_brd_response", "_parse_prd_response"}

(* C23: in generate_brd / generate_prd of each of the three clients, the   *)
(* JSON that the provider call returned is passed through the response     *)
(* fixer (fix_brd_response / fix_prd_response) after the call and before   *)
(* it is decoded into the document.                                         *)
C23_FixedBeforeDecoding ==
    \A i \in DOMAIN steps :
        steps[i] \in ParseSteps =>
            /\ i > 2
            /\ steps[i - 1] \in FixSteps
            /\ \E j \in 1..(i - 2) : steps[j] = "_call_api"

(* the reply is a JSON object that the client reads and that has every     *)
(* key the prompt asks for, except possibly document_id                     *)
WellFormedReply ==
    /\ http.event = "response"
    /\ http.status = 200
    /\ http.envelope = "ok"
    /\ http.text = "json"
    /\ http.fields = "complete"

(* C26: a provider response without document_id, otherwise well formed,    *)
(* does not make generate_brd / generate_prd raise: the document returned  *)
(* has a generated document_id of BRD- or PRD- and exactly 6 digits.       *)
C26_MissingIdGenerated ==
    (client_pc = "done" /\ WellFormedReply /\ http.document_id = "absent") =>
        /\ client_result.status = "value"
        /\ Matches(Str(client_result.document_id),
                   IF request.document_type = "brd" THEN "BRD-" ELSE "PRD-", 6)

(* the exception the mapping of the interface names for a reply, "none"    *)
(* for a reply with a 2xx status and a body the client can read            *)
MappedError(prov, reply) ==
    CASE reply.event = "timeout" -> "LLMTimeoutError"
      [] reply.status = 429 -> "LLMRateLimitError"
      [] reply.status \notin 200..299 -> "LLMConnectionError"
      [] reply.envelope # "ok" -> "LLMInvalidResponseError"
      [] ~TextParses(prov, reply.text) -> "LLMInvalidResponseError"
      [] OTHER -> "none"

(* C27: each client maps the outcome of the call in the same way: 429 to   *)
(* LLMRateLimitError, another status outside 2xx to LLMConnectionError,    *)
(* every 2xx status to success, a timeout of the client to                 *)
(* LLMTimeoutError, a body that is not JSON or lacks the path to the text  *)
(* to LLMInvalidResponseError; no other exception leaves _call_api.        *)
C27_ErrorMapping ==
    (client_pc = "done" /\ http.event # "client_error") =>
        parsed_content.exc = MappedError(strategy, http)

(* C28: when the reply reports no token usage, the CostMetadata returned   *)
(* holds the token counts and the cost estimated before the call, not      *)
(* zero; when it reports usage, it holds the reported counts and their     *)
(* cost.                                                                    *)
C28_UsageOrEstimate ==
    (client_pc = "done" /\ WellFormedReply) =>
        LET tokens == IF http.usage.reported
                      THEN [input_tokens |-> http.usage.input_tokens,
                            output_tokens |-> http.usage.output_tokens]
                      ELSE [input_tokens |-> EstimatedInputTokens(request),
                            output_tokens |-> EstimatedOutputTokens(request)]
        IN  /\ client_result.status = "value"
            /\ client_result.cost = ActualCost(strategy, tokens)

----------------------------------------------------------------------------
(* _calculate_cost on a strategy built from any LLMConfig                  *)
(* (src/src/llm/client.py).  LLMConfig declares cost_per_1k_input and      *)
(* cost_per_1k_output as plain floats: no validator bounds them, so a      *)
(* config with a negative rate is accepted.  Rates are per 1000 tokens in  *)
(* 1/100000 dollar, as above.                                              *)

MaxCostCalls == 2

CostRates == {0 - 1000, 0, 125, 1000, 7500}

TokenCounts == {0, 1, 100, 2000}

CostConfigs ==
    {[max_retries |-> LLMConfigDefaults.max_retries,
      base_delay |-> LLMConfigDefaults.base_delay,
      cost_per_1k_input |-> cin,
      cost_per_1k_output |-> cout] : cin \in CostRates, cout \in CostRates}

CalculateCostCall(input_tokens, output_tokens) ==
    /\ Cardinality(cost_calls) < MaxCostCalls
    /\ cost_calls' = cost_calls \cup
           {[input_tokens |-> input_tokens,
             output_tokens |-> output_tokens,
             cost |-> CostAtRates(config.cost_per_1k_input, config.cost_per_1k_output,
                                  input_tokens, output_tokens)]}
    /\ UNCHANGED <<limiterVars, genVars, mpVars, factoryVars, dgVars,
                   clientVars, fixerVars, cacheVars>>

CostInit ==
    /\ now = 0
    /\ calls = 0
    /\ ticks = 0
    /\ requests_per_minute = 60
    /\ tokens_per_minute = 90000
    /\ NewLimiter
    /\ strategy \in Providers
    /\ NoGenerate
    /\ NoPipeline
    /\ NoFactory
    /\ NoGenerator
    /\ config \in CostConfigs
    /\ NoClient
    /\ NoFixer
    /\ cost_calls = {}
    /\ NoCache

CostNext ==
    \E input_tokens \in TokenCounts, output_tokens \in TokenCounts :
        CalculateCostCall(input_tokens, output_tokens)

CostSpec == CostInit /\ [][CostNext]_vars

----------------------------------------------------------------------------
(* C29: for every LLMConfig a strategy can be built with, the cost         *)
(* _calculate_cost computes never decreases when neither token count       *)
(* decreases: of two calls on the same strategy, the one with the          *)
(* component-wise smaller token counts has the smaller or equal cost.      *)
C29_CostMonotone ==
    \A a \in cost_calls, b \in cost_calls :
        (a.input_tokens <= b.input_tokens /\ a.output_tokens <= b.output_tokens)
            => a.cost <= b.cost

----------------------------------------------------------------------------
(* generate_brd / generate_prd on a strategy whose LLMConfig carries its   *)
(* own max_retries and base_delay (src/src/llm/client.py lines 44-45).     *)
(* The methods are decorated with @retry_with_backoff(), whose parameters  *)
(* keep their defaults, MaxRetries and BaseDelay.                          *)

RetryConfigs ==
    {[max_retries |-> m, base_delay |-> b] : m \in {1, 3, 5}, b \in {1, 2}}

RetryInit ==
    /\ now = 0
    /\ calls = 0
    /\ ticks = 0
    /\ requests_per_minute \in {1, 60}
    /\ tokens_per_minute = 90000
    /\ NewLimiter
    /\ strategy \in Providers
    /\ NoGenerate
    /\ NoPipeline
    /\ NoFactory
    /\ NoGenerator
    /\ config \in RetryConfigs
    /\ NoClient
    /\ NoFixer
    /\ cost_calls = {}
    /\ NoCache

RetrySpec == RetryInit /\ [][GenNext]_vars

(* C30: the delay slept before retry number k (k = 0 for the first retry)  *)
(* is the configured base delay times 2^k, and the strategy's own          *)
(* config.max_retries is the retry ceiling: no more than max_retries       *)
(* attempts are made, and the wrapper gives up on a retryable error only   *)
(* once max_retries attempts are made.                                     *)
C30_ConfiguredBackoff ==
    /\ \A k \in DOMAIN sleeps : sleeps[k] = config.base_delay * (2 ^ (k - 1))
    /\ BodyRuns <= config.max_retries
    /\ (g_pc = "raised" /\ Retryable(result.exc)) => BodyRuns = config.max_retries

----------------------------------------------------------------------------
(* C35: fix_brd_response / fix_prd_response leave their argument alone:    *)
(* after the call the caller's dictionary, with every stakeholder,         *)
(* objective, user story and technical requirement in it, is what it was   *)
(* before the call; the repairs are in the returned value only.            *)
C35_ArgumentUnchanged ==
    fixer_call.fn # "none" => response_data = fixer_call.arg

----------------------------------------------------------------------------
(* C37: one call of generate_brd / generate_prd executes the function      *)
(* body at least once and at most max_retries (3) times, each execution    *)
(* calls the provider at most once, so at most 3 provider calls are made,  *)
(* and the wrapper sleeps for backoff at most max_retries - 1 times.       *)
C37_BoundedAttempts ==
    /\ BodyRuns <= MaxRetries
    /\ Len(api_log) <= BodyRuns
    /\ Len(api_log) <= 3
    /\ Len(sleeps) <= MaxRetries - 1
    /\ Len(sleeps) <= BodyRuns
    /\ g_pc \in {"returned", "raised"} => BodyRuns >= 1

C37_Witness ==
    /\ g_pc = "raised"
    /\ BodyRuns = MaxRetries
    /\ Len(api_log) = 3
    /\ Len(sleeps) = MaxRetries - 1

----------------------------------------------------------------------------
Ordered(ts) == \A i \in DOMAIN ts, j \in DOMAIN ts : i <= j => ts[i] <= ts[j]

TokenTimes == [i \in DOMAIN token_counts |-> token_counts[i][1]]

LogsOrdered == Ordered(request_times) /\ Ordered(TokenTimes)

(* a step that enters acquire leaves only entries younger than the window  *)
PrunedAtEntry ==
    calls' = calls + 1 =>
        /\ \A i \in DOMAIN request_times' : now - request_times'[i] < Window
        /\ \A i \in DOMAIN token_counts' : now - token_counts'[i][1] < Window

(* C32: in every reachable state of a RateLimiter, under sequential and    *)
(* concurrent acquire calls, both logs are ordered by time (timestamps     *)
(* non-decreasing, the first entry the oldest), and right after the        *)
(* pruning step of an acquire every remaining entry is less than 60        *)
(* seconds older than that acquire's start time.                           *)
C32_LogsOrderedAndPruned == []LogsOrdered /\ [][PrunedAtEntry]_vars

----------------------------------------------------------------------------
(* the BRD phase of a BOTH request is over and left no BRD *)
BrdGenerationFailed ==
    /\ dg_request.document_type = "both"
    /\ dg_pc \notin {"idle", "brd"}
    /\ response.brd_document = NoDocument

C38_AllOrNothing ==
    (/\ dg_request.document_type = "both"
     /\ \E v \in validations : v.doc = "prd" /\ v.status = "failed")
        => saved = {}

----------------------------------------------------------------------------
(* C34: the multi-pass pipeline runs all three phases whatever max_cost    *)
(* the original request carries: no phase is kept from calling its         *)
(* provider by the ceiling, and the pipeline never ends in                 *)
(* LLMCostExceededError, in particular not after an earlier phase has      *)
(* returned a document and incurred its cost.                              *)
C34_CeilingIgnored ==
    /\ \A k \in DOMAIN outcomes : outcomes[k] # "LLMCostExceededError"
    /\ mp_pc = "failed" => mp_result.exc # "LLMCostExceededError"

----------------------------------------------------------------------------
(* C39: the request built for the refine and polish phases satisfies       *)
(* GenerationRequest's constraints, in particular the bound of 10000       *)
(* characters on the idea text, for every valid original request and every *)
(* document of the previous phase; so a phase that succeeded is followed   *)
(* by the provider call of the next phase, never by a validation error.    *)
C39_RefinementRequestValid ==
    /\ mp_pc \in {"refine", "polish"}
           => PhaseRequest(mp_pc).user_idea_len <= MaxIdeaLen
    /\ mp_pc = "failed" => mp_result.exc # "ValidationError"

----------------------------------------------------------------------------
(* C36: the CostMetadata returned by generate_brd / generate_prd has its   *)
(* generation latency set by the cost tracker to the measured elapsed time *)
(* of the call, retries and backoff sleeps included: it is the time from   *)
(* the start of the call to its return, so greater than 0 for every call   *)
(* that took time.                                                         *)
C36_LatencyMeasured ==
    (g_pc = "returned" /\ sleeps # <<>>)
        => /\ result.doc.cost.generation_time_ms > 0
           /\ result.doc.cost.generation_time_ms >= 1000 * sleeps[1]
           /\ result.doc.cost.generation_time_ms <= (now - start_time) * 1000

----------------------------------------------------------------------------
(* DocumentGenerator.generate on a factory that was given a custom         *)
(* configuration with a small requests_per_minute for its providers        *)
(* (src/src/llm/factory.py lines 385-390), all API keys set.               *)

ThrottleConfigs ==
    {[max_retries |-> LLMConfigDefaults.max_retries,
      base_delay |-> LLMConfigDefaults.base_delay,
      requests_per_minute |-> r] : r \in {1, 2}}

ThrottleInit ==
    /\ now = 0
    /\ calls = 0
    /\ ticks = 0
    /\ requests_per_minute = 0
    /\ tokens_per_minute = 0
    /\ NewLimiter
    /\ strategy = "none"
    /\ NoGenerate
    /\ mp_pc = "idle"
    /\ mp_request = NoRequest
    /\ available = Providers
    /\ phase_docs = <<>>
    /\ mp_result = NoResult
    /\ factory = "constructed"
    /\ selection = NoSelection
    /\ NoGenerator
    /\ config \in ThrottleConfigs
    /\ NoClient
    /\ NoFixer
    /\ cost_calls = {}
    /\ NoCache

(* with a small requests_per_minute a retry waits inside acquire *)
ThrottleNext ==
    \/ DGNext
    \/ BodyWake

ThrottleSpec == ThrottleInit /\ [][ThrottleNext]_vars

(* the calls made to the provider of call k in the 60 seconds up to call k *)
CallsInWindow(k) ==
    {j \in DOMAIN api_log :
        /\ api_log[j] = api_log[k]
        /\ api_times[j] <= api_times[k]
        /\ api_times[k] - api_times[j] < Window}

(* C31: the generation requests served through one factory share one rate *)
(* window per provider: over all the provider calls of the requests, the   *)
(* number of calls made to one provider within any 60 seconds never        *)
(* exceeds that provider's requests_per_minute.                            *)
C31_SharedWindow ==
    \A k \in DOMAIN api_log :
        Cardinality(CallsInWindow(k)) <= ConfiguredRequestsPerMinute(api_log[k])

----------------------------------------------------------------------------
(* CachedRepository around FileSystemRepository (src/src/repository/       *)
(* cache.py, filesystem.py): gets and changes of one BRD by concurrent     *)
(* asyncio tasks.  The state of the document is named by the number of     *)
(* the change that produced it.  The cache holds at most one entry for the *)
(* document, far below max_size, and no entry lives as long as the TTL.    *)
(* LRUCache's lock is only held between awaits, so it is never contended.  *)

MaxChanges == 2
MaxGets == 3

CacheFrame ==
    UNCHANGED <<limiterVars, genVars, mpVars, factoryVars, dgVars, clientVars,
                fixerVars, costVars>>

GetsStarted == Len(got) + Cardinality({t \in Tasks : readers[t].pc # "idle"})

GetResult(floor, outcome, ver) == [floor |-> floor, outcome |-> outcome, ver |-> ver]

(* cache.py lines 197-208: the key is looked up; a hit is returned, a miss *)
(* goes on to the repository's get_brd, which suspends opening the file    *)
CachedGet(t) ==
    /\ readers[t].pc = "idle"
    /\ GetsStarted < MaxGets
    /\ IF cache # NotCached
       THEN /\ got' = Append(got, GetResult(changes, "value", cache))
            /\ UNCHANGED readers
       ELSE /\ readers' = [readers EXCEPT
                               ![t] = [pc |-> "reading", floor |-> changes, val |-> 0]]
            /\ UNCHANGED got
    /\ UNCHANGED <<store, cache, writer, changes>>
    /\ CacheFrame

(* filesystem.py lines 65-76: the file is read, then the task suspends     *)
(* closing it; a missing file raises DocumentNotFoundError, which is not   *)
(* cached (cache.py lines 216-218)                                         *)
ReadFile(t) ==
    /\ readers[t].pc = "reading"
    /\ IF store.present
       THEN /\ readers' = [readers EXCEPT ![t].pc = "closing", ![t].val = store.ver]
            /\ UNCHANGED got
       ELSE /\ readers' = [readers EXCEPT ![t] = IdleReader]
            /\ got' = Append(got, GetResult(readers[t].floor, "DocumentNotFoundError",
                                            store.ver))
    /\ UNCHANGED <<store, cache, writer, changes>>
    /\ CacheFrame

(* cache.py lines 210-215: get_brd returned; the result is cached and      *)
(* returned                                                                *)
CacheSet(t) ==
    /\ readers[t].pc = "closing"
    /\ cache' = readers[t].val
    /\ got' = Append(got, GetResult(readers[t].floor, "value", readers[t].val))
    /\ readers' = [readers EXCEPT ![t] = IdleReader]
    /\ UNCHANGED <<store, writer, changes>>
    /\ CacheFrame

(* cache.py lines 254-272: the key of the document is to be deleted, and   *)
(* a list or search method among the invalidated ones clears the cache     *)
InvalidateDocumentCache(c, methods) ==
    IF \E i \in DOMAIN methods : methods[i] \in {"list_brds", "list_prds", "search"}
    THEN NotCached
    ELSE IF \E i \in DOMAIN methods : methods[i] \in {"get_brd", "get_prd"}
    THEN NotCached
    ELSE c

(* cache.py lines 160-167 *)
Invalidates == <<"get_brd", "list_brds", "search">>

(* cache.py line 232 with filesystem.py lines 95-107 (save_brd, for a      *)
(* document that does not exist) or 229-248 (update_brd, for one that      *)
(* does): the task suspends writing the temporary file                     *)
ChangeStart(method) ==
    /\ writer = "idle"
    /\ changes < MaxChanges
    /\ method = "save_brd" => ~store.present
    /\ method = "update_brd" => store.present
    /\ writer' = method
    /\ UNCHANGED <<store, cache, readers, changes, got>>
    /\ CacheFrame

(* filesystem.py line 90: the temporary file is renamed; cache.py lines    *)
(* 234-250: the method returns and the cache is invalidated, with no       *)
(* suspension in between                                                   *)
ChangeFinish ==
    /\ writer # "idle"
    /\ store' = [present |-> TRUE, ver |-> changes + 1]
    /\ cache' = InvalidateDocumentCache(cache, Invalidates)
    /\ changes' = changes + 1
    /\ writer' = "idle"
    /\ UNCHANGED <<readers, got>>
    /\ CacheFrame

(* filesystem.py lines 277-296: delete_brd moves the file away without     *)
(* suspending; then the cache is invalidated                               *)
DeleteBrd ==
    /\ writer = "idle"
    /\ changes < MaxChanges
    /\ store.present
    /\ store' = [present |-> FALSE, ver |-> changes + 1]
    /\ cache' = InvalidateDocumentCache(cache, Invalidates)
    /\ changes' = changes + 1
    /\ UNCHANGED <<writer, readers, got>>
    /\ CacheFrame

CacheInit ==
    /\ now = 0
    /\ calls = 0
    /\ ticks = 0
    /\ requests_per_minute = 1
    /\ tokens_per_minute = 1
    /\ NewLimiter
    /\ strategy = "none"
    /\ NoGenerate
    /\ NoPipeline
    /\ NoFactory
    /\ NoGenerator
    /\ config = LLMConfigDefaults
    /\ NoClient
    /\ NoFixer
    /\ cost_calls = {}
    /\ store \in {[present |-> b, ver |-> 0] : b \in BOOLEAN}
    /\ cache = NotCached
    /\ readers = [t \in Tasks |-> IdleReader]
    /\ writer = "idle"
    /\ changes = 0
    /\ got = <<>>

CacheNext ==
    \/ \E t \in Tasks : CachedGet(t)
    \/ \E t \in Tasks : ReadFile(t)
    \/ \E t \in Tasks : CacheSet(t)
    \/ \E method \in {"save_brd", "update_brd"} : ChangeStart(method)
    \/ ChangeFinish
    \/ DeleteBrd

CacheSpec == CacheInit /\ [][CacheNext]_vars

(* C40: once a save, update or delete of a document has completed, no      *)
(* later get of the document returns an older state of it: a get that      *)
(* started after change number c completed returns the state change c or a *)
(* later change produced, also when a get that missed the cache was in     *)
(* flight while the change was made.                                       *)
C40_NoStaleRead ==
    \A i \in DOMAIN got : got[i].ver >= got[i].floor

====
